---- MODULE Spec2Model ----
(***************************************************************************)
(* A model of the log-parsing and derived-metrics pipeline of              *)
(* imt-dataproduct-parsers (src/errlog.py and src/imt_analysis.py).        *)
(*                                                                         *)
(* Text.  A Python str is a TLA+ string: "a in b", str.split, str.replace, *)
(* slices, int(), float(), json.loads and strptime are computed character  *)
(* by character.                                                           *)
(*                                                                         *)
(* Numbers.  A Python float is a fixed-point number with FP units per 1.0, *)
(* or one of NaN, Inf and NegInf; a result that is no multiple of a unit   *)
(* is rounded down to one.  Numbers are 32 bits wide: a finite float is at *)
(* most (2^31 - 3) / FP in size, the three numbers beyond are NaN, Inf and *)
(* NegInf.  A character is one of U+0001 to U+00FF.                        *)
(* A float that is computed on further, the rel_time of a pandas frame and *)
(* the sums of the Dose Integrator, is the exact decimal fraction          *)
(* n/d * 10^e; it is rounded when a result is returned.                    *)
(*                                                                         *)
(* Time.  A datetime is its calendar fields, for the years 1970 to 2037;   *)
(* the local time zone is UTC.  A pandas Timestamp is the nanoseconds of   *)
(* its datetime64[ns]: whole seconds since the epoch and the nanoseconds   *)
(* of the second.                                                          *)
(* A float of that size (a unix time) is its whole seconds and its         *)
(* millionths; a difference of two is rounded once, after the division.    *)
(*                                                                         *)
(* Failure.  A call that raises is a result with ok = FALSE and the name   *)
(* of the Python exception; a call that returns has ok = TRUE and val.     *)
(***************************************************************************)
EXTENDS Integers, Sequences, FiniteSets, TLC

VARIABLES
    lines,  \* the lines of the log file, as load() returns them
    data_log, \* the DataFrame of the data log (data_log_df)
    lib,    \* which module built df: "errlog" or "imt_analysis" ("" before)
    df,     \* the table the caller holds (err_log_df)
    pc,     \* "start", "frame", "stamped", "loaded" or "done"
    call,   \* the operation last called, with its arguments
    res     \* what that call returned or raised

vars == <<lines, data_log, lib, df, pc, call, res>>

----------------------------------------------------------------------------
(* Bounds of the model *)

\* the longest log file explored, in lines
MaxLines == 3

\* the longest log file with setup blocks explored, in lines
MaxSetupLines == 2

\* the longest data log explored, in rows
MaxDataLog == 3

\* the longest error log handed to the Glycemia Classifier, in lines
MaxReadings == 2

\* fixed-point units per 1.0
FP == 10 * 10 * 10

----------------------------------------------------------------------------
(* Results and small helpers *)

Ok(v) == [ok |-> TRUE, err |-> "", val |-> v]

Err(e) == [ok |-> FALSE, err |-> e, val |-> <<>>]

NoCall == [op |-> "", key |-> "", fn |-> "", substance |-> "", info |-> <<>>]

Min(a, b) == IF a <= b THEN a ELSE b

Abs(x) == IF x < 0 THEN -x ELSE x

\* greatest common divisor of two naturals
RECURSIVE Gcd(_, _)
Gcd(a, b) == IF b = 0 THEN a ELSE Gcd(b, a % b)

Range(s) == {s[i] : i \in DOMAIN s}

\* the sequences over S of length 0..n
SeqsUpTo(S, n) == UNION {[1..k -> S] : k \in 0..n}

\* r, when it is an exception; what F makes of its value otherwise
Then(r, F(_)) == IF r.ok THEN F(r.val) ELSE r

\* first exception of a sequence of results, or the sequence of their values
AllOk(rs) ==
    IF \A i \in DOMAIN rs : rs[i].ok THEN Ok([i \in DOMAIN rs |-> rs[i].val])
    ELSE rs[CHOOSE i \in DOMAIN rs : ~rs[i].ok /\ \A j \in 1..(i - 1) : rs[j].ok]

----------------------------------------------------------------------------
(* Floats *)

\* float('inf'), float('-inf') and float('nan'): three numbers no finite
\* float of the model reaches
Inf == 2147483647

NegInf == -2147483646

NaN == -2147483647

IsFinite(x) == x \notin {NaN, Inf, NegInf}

\* a finite float x the model can hold: two units short of 2^31 in size, so
\* that it is none of NaN, Inf and NegInf.  A larger one is beyond the 32
\* bits of the model and its evaluation stops with an overflow, as that of
\* any number beyond 2^31 does.
InRange(x) == IF Abs(x) + 2 <= Inf THEN x ELSE Inf

\* int(x): truncation towards zero
ToInt(x) == IF x >= 0 THEN x \div FP ELSE -((-x) \div FP)

----------------------------------------------------------------------------
(* Exact floats: a decimal fraction n/d * 10^e.  1/0 is inf, -1/0 is -inf  *)
(* and 0/0 is nan.                                                         *)

\* 10^k for k >= 0
RECURSIVE Pow10(_)
Pow10(k) == IF k = 0 THEN 1 ELSE 10 * Pow10(k - 1)

\* n/d * 10^e in its one form: n/d in lowest terms, d > 0, and neither n nor
\* d a multiple of 5, so that e is the power of 5 in the number (1.665e-08
\* is 333/2 * 10^-10, a 3600th is 1/36 * 10^-2)
RECURSIVE Decimal(_, _, _)
Decimal(n, d, e) ==
    LET lowest(g) ==
            IF g > 1 THEN Decimal(n \div g, d \div g, e)
            ELSE IF n % 10 = 0 THEN Decimal(n \div 10, d, e + 1)
            ELSE IF d % 10 = 0 THEN Decimal(n, d \div 10, e - 1)
            ELSE IF n % 5 = 0 THEN Decimal(n \div 5, d * 2, e + 1)
            ELSE IF d % 5 = 0 THEN Decimal(n * 2, d \div 5, e - 1)
            ELSE [n |-> n, d |-> d, e |-> e]
    IN  IF d = 0
        THEN [n |-> IF n > 0 THEN 1 ELSE IF n < 0 THEN -1 ELSE 0, d |-> 0, e |-> 0]
        ELSE IF n = 0 THEN [n |-> 0, d |-> 1, e |-> 0]
        ELSE IF d < 0 THEN Decimal(-n, -d, e)
        ELSE lowest(Gcd(Abs(n), d))

\* n/d
Ratio(n, d) == Decimal(n, d, 0)

\* the fraction of a float
Frac(x) ==
    CASE x = NaN    -> Ratio(0, 0)
      [] x = Inf    -> Ratio(1, 0)
      [] x = NegInf -> Ratio(-1, 0)
      [] OTHER      -> Ratio(x, FP)

\* the whole part of (whole + rest/d) * 10^k, for 0 <= rest < d, digit by
\* digit
RECURSIVE Shifted(_, _, _, _)
Shifted(whole, rest, d, k) ==
    IF k = 0 THEN whole
    ELSE Shifted(whole * 10 + (rest * 10) \div d, (rest * 10) % d, d, k - 1)

\* the float of a fraction, rounded down to a unit
Float(q) ==
    LET units(shift) ==
            IF shift >= 0
            THEN InRange(Shifted(q.n \div q.d, q.n % q.d, q.d, shift))
            ELSE IF -shift > 9 \/ q.d > 2147483647 \div Pow10(-shift)
            THEN (IF q.n > 0 THEN 0 ELSE -1)
            ELSE q.n \div (q.d * Pow10(-shift))
    IN  IF q.d = 0 THEN (IF q.n = 0 THEN NaN ELSE IF q.n > 0 THEN Inf ELSE NegInf)
        ELSE IF q.n = 0 THEN 0
        ELSE units(q.e + 3)

\* a * b
FMul(a, b) ==
    LET product(g, h) ==
            Decimal((a.n \div g) * (b.n \div h), (a.d \div h) * (b.d \div g),
                   a.e + b.e)
    IN  IF a.d = 0 \/ b.d = 0 THEN Ratio(a.n * b.n, 0)
        ELSE IF a.n = 0 \/ b.n = 0 THEN Ratio(0, 1)
        ELSE product(Gcd(Abs(a.n), b.d), Gcd(Abs(b.n), a.d))

\* a / b as numpy divides: x/0 is inf, -inf or nan
FDiv(a, b) ==
    IF b.d = 0 THEN (IF b.n = 0 \/ a.d = 0 THEN Ratio(0, 0) ELSE Ratio(0, 1))
    ELSE IF b.n = 0 THEN Ratio(a.n, 0)
    ELSE IF a.d = 0 THEN Ratio(a.n * b.n, 0)
    ELSE FMul(a, Decimal(b.d, b.n, -b.e))

\* a + b
FAdd(a, b) ==
    LET sum(g, e) ==
            Decimal(a.n * Pow10(a.e - e) * (b.d \div g)
                       + b.n * Pow10(b.e - e) * (a.d \div g),
                   (a.d \div g) * b.d, e)
    IN  IF a.d = 0 /\ b.d = 0 THEN (IF a.n = b.n THEN a ELSE Ratio(0, 0))
        ELSE IF a.d = 0 THEN a
        ELSE IF b.d = 0 THEN b
        ELSE IF b.n = 0 THEN a
        ELSE IF a.n = 0 THEN b
        ELSE sum(Gcd(a.d, b.d), IF a.e < b.e THEN a.e ELSE b.e)

\* a - b
FSub(a, b) == FAdd(a, [b EXCEPT !.n = -b.n])

\* a < b for two fractions; false when one of them is nan
FLess(a, b) == FSub(a, b).n < 0

\* series.min() of a column of floats: nan is skipped; nan when nothing is
\* left
MinOf(s) ==
    LET real == {i \in DOMAIN s : s[i] # Ratio(0, 0)}
    IN  IF real = {} THEN Ratio(0, 0)
        ELSE s[CHOOSE i \in real : \A j \in real : ~FLess(s[j], s[i])]

\* series.max(): nan is skipped; nan when nothing is left
MaxOf(s) ==
    LET real == {i \in DOMAIN s : s[i] # Ratio(0, 0)}
    IN  IF real = {} THEN Ratio(0, 0)
        ELSE s[CHOOSE i \in real : \A j \in real : ~FLess(s[i], s[j])]

----------------------------------------------------------------------------
(* Characters and strings *)

\* s[i:j] in Python's 0-based slices is SubSeq(s, i + 1, j); Char(s, i) is
\* the i-th character, "" past the end
Char(s, i) == IF i >= 1 /\ i <= Len(s) THEN SubSeq(s, i, i) ELSE ""

\* does lit occur in s at position i
At(s, i, lit) ==
    i >= 1 /\ i + Len(lit) - 1 <= Len(s) /\ SubSeq(s, i, i + Len(lit) - 1) = lit

\* "lit in s" for two Python strings: lit occurs somewhere in s
Contains(s, lit) == \E i \in 1..(Len(s) - Len(lit) + 1) : At(s, i, lit)

\* the least and the greatest of a set of positions, 0 for the empty set
Least(S) == IF S = {} THEN 0 ELSE CHOOSE i \in S : \A h \in S : i <= h

Greatest(S) == IF S = {} THEN 0 ELSE CHOOSE i \in S : \A h \in S : h <= i

\* the first position in lo..hi where lit occurs in s, 0 if none
FindIn(s, lit, lo, hi) == Least({i \in lo..hi : At(s, i, lit)})

\* s.find(lit, from - 1) + 1: the first position >= from where lit occurs, 0
\* if none (the positions next to from are looked at first)
Find(s, lit, from) ==
    LET last == Len(s) - Len(lit) + 1
        or(near, far) == IF near # 0 THEN near ELSE far
    IN  or(FindIn(s, lit, from, Min(from + 63, last)),
           FindIn(s, lit, from + 64, last))

\* s.split(sep): the pieces between the occurrences of sep, left to right;
\* a string without sep is one piece
RECURSIVE Split(_, _)
Split(s, sep) ==
    LET cut(i) ==
            IF i = 0 THEN <<s>>
            ELSE <<SubSeq(s, 1, i - 1)>>
                     \o Split(SubSeq(s, i + Len(sep), Len(s)), sep)
    IN  cut(Find(s, sep, 1))

\* s.split(sep, 1): cut at the first occurrence of sep only
SplitOnce(s, sep) ==
    LET cut(i) ==
            IF i = 0 THEN <<s>>
            ELSE <<SubSeq(s, 1, i - 1), SubSeq(s, i + Len(sep), Len(s))>>
    IN  cut(Find(s, sep, 1))

\* s.replace(c, '') for a character c
Remove(s, c) ==
    LET F[i \in 0..Len(s)] ==
            IF i = 0 THEN ""
            ELSE IF Char(s, i) = c THEN F[i - 1] ELSE F[i - 1] \o Char(s, i)
    IN  F[Len(s)]

\* s[:-1]
DropLastChar(s) == SubSeq(s, 1, Len(s) - 1)

Digits == "0123456789"

IsDigit(c) == c \in {"0", "1", "2", "3", "4", "5", "6", "7", "8", "9"}

DigitVal(c) == FindIn(Digits, c, 1, Len(Digits)) - 1

\* is every character of s a digit (true of "")
AllDigits(s) == \A i \in 1..Len(s) : IsDigit(Char(s, i))

\* the number a run of digits spells
RECURSIVE ParseNat(_)
ParseNat(s) ==
    IF s = "" THEN 0
    ELSE 10 * ParseNat(SubSeq(s, 1, Len(s) - 1)) + DigitVal(Char(s, Len(s)))

\* the whitespace of JSON
IsSpace(c) == c \in {" ", "\t", "\n", "\r"}

\* the characters of the model, U+0001 to U+00FF in the order of their code
\* points (the grave accent, U+0060, cannot stand alone in a string)
Latin1 ==
    "\t\n\f\r !\"#$%&'()*+,-./0123456789:;<=>?@ABCDEFGHIJKLMNOPQRSTUVWXYZ[\\]^_"
    \o SubSeq("`'", 1, 1) \o
    "abcdefghijklmnopqrstuvwxyz{|}~ ¡¢£¤¥¦§¨©ª«¬­®¯°±²³´µ¶·¸¹º»¼½¾¿ÀÁÂÃÄÅÆÇÈÉÊËÌÍÎÏÐÑÒÓÔÕÖ×ØÙÚÛÜÝÞßàáâãäåæçèéêëìíîïðñòóôõö÷øùúûüýþÿ"

\* chr(n): the character with the code point n; a character beyond U+00FF,
\* and U+0000, is none of the model's
Chr(n) == SubSeq(Latin1, n, n)

\* the characters the \s of a regular expression takes, those str.isspace()
\* holds for: \t \n \x0b \f \r, \x1c to \x1f, the space, \x85 and \xa0
ReSpaces == {Chr(n) : n \in (9..13) \cup (28..32) \cup {133, 160}}

\* the characters int() and float() strip from the ends of a str: those but
\* \x1c to \x1f
PySpaces == {Chr(n) : n \in (9..13) \cup {32, 133, 160}}

\* the control characters a strict JSON string must not hold: below U+0020
ControlChars == {Chr(n) : n \in 1..31}

\* the whitespace int() and float() strip
IsPySpace(c) == c \in PySpaces

\* the whitespace of _strptime's regular expression
IsReSpace(c) == c \in ReSpaces

\* s.strip()
Strip(s) ==
    LET keep == {i \in 1..Len(s) : ~IsPySpace(Char(s, i))}
    IN  IF keep = {} THEN "" ELSE SubSeq(s, Least(keep), Greatest(keep))

\* s.lower() on the letters of the words nan, inf and infinity
Lower(s) ==
    LET upper == "AFINTY"
        lower == "afinty"
        low(c) == IF c # "" /\ Contains(upper, c)
                  THEN Char(lower, FindIn(upper, c, 1, Len(upper))) ELSE c
        F[i \in 0..Len(s)] == IF i = 0 THEN "" ELSE F[i - 1] \o low(Char(s, i))
    IN  F[Len(s)]

\* s without its underscores, when every underscore stands between two
\* digits ("1_000"); s itself otherwise
DropUnderscores(s) ==
    LET legal == \A i \in 1..Len(s) :
                    Char(s, i) = "_" => IsDigit(Char(s, i - 1)) /\ IsDigit(Char(s, i + 1))
        F[i \in 0..Len(s)] ==
            IF i = 0 THEN ""
            ELSE IF Char(s, i) = "_" THEN F[i - 1] ELSE F[i - 1] \o Char(s, i)
    IN  IF legal THEN F[Len(s)] ELSE s

\* s followed by n zeros
RECURSIVE PadZeros(_, _)
PadZeros(s, n) == IF n <= 0 THEN s ELSE PadZeros(s \o "0", n - 1)

\* the decimal number with the digits whole before the point and frac after
\* it, times 10^exp, in units of 1/FP (digits beyond the unit are dropped)
Scaled(whole, frac, exp) ==
    LET all == whole \o frac
        point == Len(whole) + exp + 3
    IN  IF point <= 0 THEN 0
        ELSE InRange(ParseNat(SubSeq(PadZeros(all, point - Len(all)), 1, point)))

\* the text of a number: sign, digits, optional fraction, optional exponent;
\* the record of its parts, ok = FALSE if s is no such text.  Python's float
\* takes "1.", ".5" and "1e3"; JSON takes none of "1.", ".5", "01", "+1"
NumberParts(s) ==
    LET Unsigned(t) ==
            IF Char(t, 1) \in {"-", "+"} THEN SubSeq(t, 2, Len(t)) ELSE t
        body == Unsigned(s)
        first(e, E) == IF e = 0 THEN E ELSE IF E = 0 THEN e ELSE Min(e, E)
        parts(epos, mant, expo) ==
            LET edig == Unsigned(expo)
                split(dot, whole, frac) ==
                    [ok |-> /\ AllDigits(whole) /\ AllDigits(frac)
                            /\ Len(whole) + Len(frac) > 0
                            /\ epos # 0 => (edig # "" /\ AllDigits(edig)),
                     neg |-> Char(s, 1) = "-",
                     whole |-> whole, frac |-> frac,
                     exp |-> IF epos = 0 \/ edig = "" \/ ~AllDigits(edig) THEN 0
                             ELSE (IF Char(expo, 1) = "-" THEN -1 ELSE 1)
                                      * ParseNat(edig)]
                at(dot) ==
                    split(dot,
                          IF dot = 0 THEN mant ELSE SubSeq(mant, 1, dot - 1),
                          IF dot = 0 THEN "" ELSE SubSeq(mant, dot + 1, Len(mant)))
            IN  at(FindIn(mant, ".", 1, Len(mant)))
        from(epos) ==
            parts(epos,
                  IF epos = 0 THEN body ELSE SubSeq(body, 1, epos - 1),
                  IF epos = 0 THEN "" ELSE SubSeq(body, epos + 1, Len(body)))
    IN  from(first(FindIn(body, "e", 1, Len(body)),
                   FindIn(body, "E", 1, Len(body))))

PartsValue(p) == (IF p.neg THEN -1 ELSE 1) * Scaled(p.whole, p.frac, p.exp)

\* float(s) for a str: the value, or ValueError
PyFloatStr(s) ==
    LET value(low, p) ==
            IF low \in {"nan", "+nan", "-nan"} THEN Ok(NaN)
            ELSE IF low \in {"inf", "+inf", "infinity", "+infinity"} THEN Ok(Inf)
            ELSE IF low \in {"-inf", "-infinity"} THEN Ok(NegInf)
            ELSE IF p.ok THEN Ok(PartsValue(p))
            ELSE Err("ValueError")
        of(t) == value(Lower(t), NumberParts(t))
    IN  of(DropUnderscores(Strip(s)))

\* int(s) for a str: an optional sign and digits
PyIntStr(s) ==
    LET of(t, body) ==
            IF body # "" /\ AllDigits(body)
            THEN Ok((IF Char(t, 1) = "-" THEN -1 ELSE 1) * ParseNat(body))
            ELSE Err("ValueError")
        from(t) ==
            of(t, IF Char(t, 1) \in {"-", "+"} THEN SubSeq(t, 2, Len(t)) ELSE t)
    IN  from(DropUnderscores(Strip(s)))
----------------------------------------------------------------------------
(* JSON values, their text, and json.loads *)

\* what json.loads returns: a number (an int or a float; NaN, Infinity and
\* -Infinity, which Python's json accepts, included), a string, None, a bool,
\* a list or a dict
JNum(n) == [ty |-> "num", n |-> n, s |-> ""]

JStr(s) == [ty |-> "str", n |-> 0, s |-> s]

JNull == [ty |-> "null", n |-> 0, s |-> ""]

JBool(b) == [ty |-> "bool", n |-> IF b THEN FP ELSE 0, s |-> ""]

JList(items) == [ty |-> "list", n |-> 0, s |-> "", items |-> items]

JObj(obj) == [ty |-> "obj", n |-> 0, s |-> "", obj |-> obj]

\* the text of a number: "120" for a whole number, "99.5" otherwise
NumText(n) ==
    LET a == IF n < 0 THEN -n ELSE n
        frac == a % FP
        three == (IF frac < 10 THEN "00" ELSE IF frac < 100 THEN "0" ELSE "")
                     \o ToString(frac)
        cut == IF frac % 100 = 0 THEN SubSeq(three, 1, 1)
               ELSE IF frac % 10 = 0 THEN SubSeq(three, 1, 2) ELSE three
    IN  (IF n < 0 THEN "-" ELSE "") \o ToString(a \div FP)
            \o (IF frac = 0 THEN "" ELSE "." \o cut)

\* the compact JSON text of a value; strings are written between quotes as
\* they are (the strings written hold no quote, backslash or control
\* character)
RECURSIVE JsonText(_)
RECURSIVE ItemsText(_)
RECURSIVE MembersText(_, _)
JsonText(v) ==
    CASE v.ty = "num"       -> IF v.n = NaN THEN "NaN"
                               ELSE IF v.n = Inf THEN "Infinity"
                               ELSE IF v.n = NegInf THEN "-Infinity"
                               ELSE NumText(v.n)
      [] v.ty = "str"       -> "\"" \o v.s \o "\""
      [] v.ty = "null"      -> "null"
      [] v.ty = "bool"      -> IF v.n = 0 THEN "false" ELSE "true"
      [] v.ty = "list"      -> "[" \o ItemsText(v.items) \o "]"
      [] v.ty = "obj"       -> "{" \o MembersText(v.obj, DOMAIN v.obj) \o "}"

ItemsText(items) ==
    IF items = <<>> THEN ""
    ELSE JsonText(Head(items))
             \o (IF Len(items) = 1 THEN "" ELSE "," \o ItemsText(Tail(items)))

MembersText(obj, keys) ==
    IF keys = {} THEN ""
    ELSE LET k == CHOOSE key \in keys : TRUE
         IN  "\"" \o k \o "\":" \o JsonText(obj[k])
                 \o (IF keys = {k} THEN "" ELSE "," \o MembersText(obj, keys \ {k}))

\* the first position >= i of s that holds no whitespace
RECURSIVE SkipWs(_, _)
SkipWs(s, i) == IF IsSpace(Char(s, i)) THEN SkipWs(s, i + 1) ELSE i

\* the first position >= i of s that holds no digit
RECURSIVE DigitsEnd(_, _)
DigitsEnd(s, i) == IF IsDigit(Char(s, i)) THEN DigitsEnd(s, i + 1) ELSE i

\* a failed and a successful step of the parser: the value and the position
\* after it
NoParse == [ok |-> FALSE, val |-> JNull, next |-> 0]

Parsed(v, next) == [ok |-> TRUE, val |-> v, next |-> next]

\* NUMBER_RE at position i: -?(0|[1-9]\d*)(\.\d+)?([eE][-+]?\d+)?
ScanNumber(s, i) ==
    LET neg == Char(s, i) = "-"
        a == IF neg THEN i + 1 ELSE i
        hasfrac(b) == Char(s, b) = "." /\ IsDigit(Char(s, b + 1))
        hasexp(c, esign) == Char(s, c) \in {"e", "E"} /\ IsDigit(Char(s, esign))
        number(b, c, esign, d) ==
            Parsed(JNum((IF neg THEN -1 ELSE 1)
                          * Scaled(SubSeq(s, a, b - 1),
                                   IF hasfrac(b) THEN SubSeq(s, b + 1, c - 1) ELSE "",
                                   IF ~hasexp(c, esign) THEN 0
                                   ELSE (IF Char(s, c + 1) = "-" THEN -1 ELSE 1)
                                            * ParseNat(SubSeq(s, esign, d - 1)))),
                   d)
        exponent(b, c, esign) ==
            number(b, c, esign, IF hasexp(c, esign) THEN DigitsEnd(s, esign) ELSE c)
        fraction(b, c) ==
            exponent(b, c, IF Char(s, c + 1) \in {"-", "+"} THEN c + 2 ELSE c + 1)
        whole(b) ==
            IF b = a THEN NoParse
            ELSE fraction(b, IF hasfrac(b) THEN DigitsEnd(s, b + 1) ELSE b)
    IN  whole(IF Char(s, a) = "0" THEN a + 1 ELSE DigitsEnd(s, a))

\* the digits of the base 16
HexDigits == "0123456789abcdefABCDEF"

IsHex(c) == c # "" /\ Contains(HexDigits, c)

\* int(s, 16) for a run of hexadecimal digits
RECURSIVE ParseHex(_)
ParseHex(s) ==
    LET value(k) == IF k > 15 THEN k - 6 ELSE k
    IN  IF s = "" THEN 0
        ELSE 16 * ParseHex(SubSeq(s, 1, Len(s) - 1))
                 + value(FindIn(HexDigits, Char(s, Len(s)), 1, Len(HexDigits)) - 1)

\* scanstring: the body of a string from position i on, acc the characters
\* read so far.  strict forbids the control characters; \uXXXX is the
\* character with that code point.
RECURSIVE ScanString(_, _, _, _)
ScanString(s, i, acc, strict) ==
    LET body(quote, stop) ==
            LET run == SubSeq(s, i, stop - 1)
                e == Char(s, stop + 1)
                more == acc \o run
            IN  IF quote = 0 THEN NoParse
                ELSE IF strict /\ \E k \in i..(stop - 1) : Char(s, k) \in ControlChars
                THEN NoParse
                ELSE IF stop = quote THEN Parsed(JStr(more), quote + 1)
                ELSE IF e \in {"\"", "\\", "/"}
                THEN ScanString(s, stop + 2, more \o e, strict)
                ELSE IF e = "n" THEN ScanString(s, stop + 2, more \o "\n", strict)
                ELSE IF e = "t" THEN ScanString(s, stop + 2, more \o "\t", strict)
                ELSE IF e = "r" THEN ScanString(s, stop + 2, more \o "\r", strict)
                ELSE IF e = "f" THEN ScanString(s, stop + 2, more \o "\f", strict)
                ELSE IF e = "b" THEN ScanString(s, stop + 2, more \o Chr(8), strict)
                ELSE IF e = "u" /\ stop + 5 <= Len(s)
                          /\ \A k \in (stop + 2)..(stop + 5) : IsHex(Char(s, k))
                THEN ScanString(s, stop + 6,
                                more \o Chr(ParseHex(SubSeq(s, stop + 2, stop + 5))),
                                strict)
                ELSE NoParse
        or(slash, quote) == IF slash = 0 THEN quote ELSE slash
        upto(quote) == body(quote, or(FindIn(s, "\\", i, quote - 1), quote))
    IN  upto(Find(s, "\"", i))

RECURSIVE ScanValue(_, _, _)
RECURSIVE ScanItems(_, _, _, _)
RECURSIVE ScanMembers(_, _, _, _)
\* scan_once: the JSON value that starts at position i
ScanValue(s, i, strict) ==
    LET c == Char(s, i)
        j == SkipWs(s, i + 1)
    IN  IF c = "\"" THEN ScanString(s, i + 1, "", strict)
        ELSE IF c = "{"
        THEN IF Char(s, j) = "}" THEN Parsed(JObj(<<>>), j + 1)
             ELSE ScanMembers(s, j, <<>>, strict)
        ELSE IF c = "["
        THEN IF Char(s, j) = "]" THEN Parsed(JList(<<>>), j + 1)
             ELSE ScanItems(s, j, <<>>, strict)
        ELSE IF At(s, i, "null") THEN Parsed(JNull, i + 4)
        ELSE IF At(s, i, "true") THEN Parsed(JBool(TRUE), i + 4)
        ELSE IF At(s, i, "false") THEN Parsed(JBool(FALSE), i + 5)
        ELSE IF At(s, i, "NaN") THEN Parsed(JNum(NaN), i + 3)
        ELSE IF At(s, i, "Infinity") THEN Parsed(JNum(Inf), i + 8)
        ELSE IF At(s, i, "-Infinity") THEN Parsed(JNum(NegInf), i + 9)
        ELSE ScanNumber(s, i)

\* JSONArray: the items from position i (no whitespace there) on
ScanItems(s, i, items, strict) ==
    LET v == ScanValue(s, i, strict)
        j == SkipWs(s, v.next)
    IN  IF ~v.ok THEN NoParse
        ELSE IF Char(s, j) = "]" THEN Parsed(JList(Append(items, v.val)), j + 1)
        ELSE IF Char(s, j) = "," 
        THEN ScanItems(s, SkipWs(s, j + 1), Append(items, v.val), strict)
        ELSE NoParse

\* JSONObject: the members from position i (no whitespace there) on; a key
\* written twice keeps its last value
ScanMembers(s, i, obj, strict) ==
    LET member(k) ==
            LET colon == SkipWs(s, k.next)
                v == ScanValue(s, SkipWs(s, colon + 1), strict)
                j == SkipWs(s, v.next)
                more == [x \in DOMAIN obj \cup {k.val.s} |->
                            IF x = k.val.s THEN v.val ELSE obj[x]]
            IN  IF Char(s, i) # "\"" \/ ~k.ok THEN NoParse
                ELSE IF Char(s, colon) # ":" THEN NoParse
                ELSE IF ~v.ok THEN NoParse
                ELSE IF Char(s, j) = "}" THEN Parsed(JObj(more), j + 1)
                ELSE IF Char(s, j) = ","
                THEN ScanMembers(s, SkipWs(s, j + 1), more, strict)
                ELSE NoParse
    IN  member(ScanString(s, i + 1, "", strict))

\* json.loads(s, strict=strict): the value, or JSONDecodeError when s is no
\* JSON text or text follows the value
json_loads(s, strict) ==
    LET whole(v) ==
            IF v.ok /\ SkipWs(s, v.next) = Len(s) + 1 THEN Ok(v.val)
            ELSE Err("JSONDecodeError")
    IN  whole(ScanValue(s, SkipWs(s, 1), strict))

----------------------------------------------------------------------------
(* Python's int(), float() and subscript on what json.loads returned *)

\* int(v)
PyInt(v) ==
    CASE v.ty = "num"  -> IF v.n = NaN THEN Err("ValueError")
                          ELSE IF ~IsFinite(v.n) THEN Err("OverflowError")
                          ELSE Ok(ToInt(v.n))
      [] v.ty = "str"  -> PyIntStr(v.s)
      [] v.ty = "bool" -> Ok(ToInt(v.n))
      [] OTHER         -> Err("TypeError")

\* float(v)
PyFloat(v) ==
    CASE v.ty = "num"  -> Ok(v.n)
      [] v.ty = "str"  -> PyFloatStr(v.s)
      [] v.ty = "bool" -> Ok(v.n)
      [] OTHER         -> Err("TypeError")

\* v[key] for a str key: the member of a dict; a dict without the key raises
\* KeyError, any other value TypeError
Subscript(v, key) ==
    IF v.ty # "obj" THEN Err("TypeError")
    ELSE IF key \notin DOMAIN v.obj THEN Err("KeyError")
    ELSE Ok(v.obj[key])

\* can v be the key of a dict
Hashable(v) == v.ty \notin {"list", "obj"}

\* v as the key of a dict: True and 1 are one key, False and 0 another
AsKey(v) == IF v.ty = "bool" THEN JNum(v.n) ELSE v
----------------------------------------------------------------------------
(* Tables: a dict from column name to list (a defaultdict(list)) *)

col_delim == ";"

headers ==
    <<"timestamp", "severity", "UNUSED", "message", "code", "source", "call chain">>

\* d[name] = value on a dict
DictSet(d, name, value) ==
    [x \in DOMAIN d \cup {name} |-> IF x = name THEN value ELSE d[x]]

\* df[header].append(cell) on a defaultdict(list)
DictAppend(T, h, cell) ==
    IF h \in DOMAIN T THEN [T EXCEPT ![h] = Append(@, cell)]
    ELSE T @@ (h :> <<cell>>)

\* the inner loop of df_from: for header, cell in zip(hs, cells)
RECURSIVE ZipAppend(_, _, _)
ZipAppend(T, hs, cells) ==
    IF hs = <<>> \/ cells = <<>> THEN T
    ELSE ZipAppend(DictAppend(T, Head(hs), Head(cells)), Tail(hs), Tail(cells))

RECURSIVE df_from_loop(_, _, _)
df_from_loop(T, hs, ls) ==
    IF ls = <<>> THEN T
    ELSE df_from_loop(ZipAppend(T, hs, Split(Head(ls), col_delim)), hs, Tail(ls))

\* a plausible slip: lines with fewer fields than headers are skipped
df_from_full_only(hs, ls) ==
    df_from_loop(<<>>, hs,
                 SelectSeq(ls, LAMBDA l : Len(Split(l, col_delim)) >= Len(hs)))

df_from(hs, ls) == df_from_loop(<<>>, hs, ls)

\* errlog.err_log_dataframe: df_from over the loaded lines
err_log_dataframe(ls) == df_from(headers, ls)

\* table[key] on a defaultdict(list)
Column(T, key) == IF key \in DOMAIN T THEN T[key] ELSE <<>>

\* the table after table[key] was read: a defaultdict(list) keeps the key
Touched(T, key) == IF key \in DOMAIN T THEN T ELSE T @@ (key :> <<>>)

----------------------------------------------------------------------------
(* Time Normalizer: strptime *)

\* the format of the log's timestamps
fmt == "%Y%m%d%H%M%S.%f"

\* the other format written in imt_analysis.err_log_dataframe
fmt_slashes == "%m/%d/%Y %H:%M:%S.%f"

\* the directives and the literal characters of a format, in order
RECURSIVE Tokens(_)
Tokens(f) ==
    IF f = "" THEN <<>>
    ELSE IF Char(f, 1) = "%"
    THEN <<SubSeq(f, 1, 2)>> \o Tokens(SubSeq(f, 3, Len(f)))
    ELSE <<Char(f, 1)>> \o Tokens(SubSeq(f, 2, Len(f)))

\* the number the n characters of s from position i on spell, -1 if they are
\* not n digits
NumAt(s, i, n) ==
    IF i + n - 1 <= Len(s) /\ AllDigits(SubSeq(s, i, i + n - 1))
    THEN ParseNat(SubSeq(s, i, i + n - 1)) ELSE -1

\* the values a directive takes when written with two digits, and with one
TwoDigit(t) ==
    CASE t = "%m" -> 1..12
      [] t = "%d" -> 1..31
      [] t = "%H" -> 0..23
      [] t = "%M" -> 0..59
      [] t = "%S" -> 0..61

OneDigit(t) == IF t \in {"%m", "%d"} THEN 1..9 ELSE 0..9

\* the first position >= i of s that holds no whitespace
RECURSIVE SkipReSpace(_, _)
SkipReSpace(s, i) == IF IsReSpace(Char(s, i)) THEN SkipReSpace(s, i + 1) ELSE i

\* the end of the run of at most n digits that starts at position i
RECURSIVE DigitRun(_, _, _)
DigitRun(s, i, n) ==
    IF n > 0 /\ IsDigit(Char(s, i)) THEN DigitRun(s, i + 1, n - 1) ELSE i

NoMatch == [ok |-> FALSE, end |-> 0, got |-> <<>>]

\* the regular expression strptime makes of a format, matched against s from
\* position i on: each directive takes its two-digit form when the rest of
\* the format then matches, its one-digit form otherwise; %f takes up to
\* digits digits and is their number when zeros fill them up to digits (with
\* 6 digits the microseconds, with 9 the nanoseconds); whitespace in the
\* format takes any run of whitespace
RECURSIVE Match(_, _, _, _, _)
Match(s, i, toks, got, digits) ==
    LET t == Head(toks)
        rest == Tail(toks)
        take(n, value) == Match(s, i + n, rest, got @@ (t :> value), digits)
        year(four) == IF four < 0 THEN NoMatch ELSE take(4, four)
        fraction(stop) ==
            IF stop = i THEN NoMatch
            ELSE take(stop - i,
                      ParseNat(PadZeros(SubSeq(s, i, stop - 1), digits - (stop - i))))
        first(a, b, c) == IF a.ok THEN a ELSE IF b.ok THEN b ELSE c
        field(two, one, blank) ==
            first(IF two \in TwoDigit(t) THEN take(2, two) ELSE NoMatch,
                  IF one \in OneDigit(t) THEN take(1, one) ELSE NoMatch,
                  IF t = "%d" /\ Char(s, i) = " " /\ blank \in OneDigit(t)
                  THEN take(2, blank) ELSE NoMatch)
    IN  IF toks = <<>> THEN [ok |-> TRUE, end |-> i, got |-> got]
        ELSE IF t = "%Y" THEN year(NumAt(s, i, 4))
        ELSE IF t = "%f" THEN fraction(DigitRun(s, i, digits))
        ELSE IF t \in {"%m", "%d", "%H", "%M", "%S"}
        THEN field(NumAt(s, i, 2), NumAt(s, i, 1), NumAt(s, i + 1, 1))
        ELSE IF IsReSpace(t)
        THEN IF ~IsReSpace(Char(s, i)) THEN NoMatch
             ELSE Match(s, SkipReSpace(s, i), rest, got, digits)
        ELSE IF Char(s, i) = t THEN Match(s, i + 1, rest, got, digits)
        ELSE NoMatch

IsLeap(y) == y % 4 = 0 /\ (y % 100 # 0 \/ y % 400 = 0)

DaysInMonth(y, m) ==
    IF m = 2 THEN (IF IsLeap(y) THEN 29 ELSE 28)
    ELSE IF m \in {4, 6, 9, 11} THEN 30 ELSE 31

\* the days from 1970-01-01 to the day d of month m of year y
DaysFromCivil(y, m, d) ==
    LET yy == IF m <= 2 THEN y - 1 ELSE y
        era == yy \div 400
        yoe == yy - era * 400
        mp == IF m > 2 THEN m - 3 ELSE m + 9
        doy == (153 * mp + 2) \div 5 + d - 1
        doe == yoe * 365 + yoe \div 4 - yoe \div 100 + doy
    IN  era * 146097 + doe - 719468

\* a datetime, by its fields
Datetime(year, month, day, hour, minute, second, microsecond) ==
    [year |-> year, month |-> month, day |-> day, hour |-> hour,
     minute |-> minute, second |-> second, microsecond |-> microsecond]

\* datetime.strptime(time_string, f): the datetime, or ValueError when
\* time_string does not match the format, text follows the match, or the
\* fields are no date and time
strptime(time_string, f) ==
    LET datetime(m, g) ==
            IF ~m.ok \/ m.end # Len(time_string) + 1 THEN Err("ValueError")
            ELSE IF g["%Y"] < 1 \/ g["%d"] > DaysInMonth(g["%Y"], g["%m"])
                       \/ g["%S"] > 59
            THEN Err("ValueError")
            ELSE Ok(Datetime(g["%Y"], g["%m"], g["%d"],
                             g["%H"], g["%M"], g["%S"], g["%f"]))
        of(m) == datetime(m, m.got)
    IN  of(Match(time_string, 1, Tokens(f), <<>>, 6))

\* errlog.err_log_timestamp
err_log_timestamp(time_string) == strptime(time_string, fmt)

\* the whole seconds from 1970-01-01 00:00:00 to dt
EpochSeconds(dt) ==
    ((DaysFromCivil(dt.year, dt.month, dt.day) * 24 + dt.hour) * 60 + dt.minute) * 60
        + dt.second

\* a float of the size of a unix time: whole seconds and millionths
Unix(sec, us) == [sec |-> sec, us |-> us]

\* dt.timestamp(): float seconds since the epoch
err_log_fractional_sec(dt) == Unix(EpochSeconds(dt), dt.microsecond)

\* x - y for two unix times: whole seconds and millionths, 0 <= us < 10^6
Span(x, y) ==
    IF x.us >= y.us THEN [sec |-> x.sec - y.sec, us |-> x.us - y.us]
    ELSE [sec |-> x.sec - y.sec - 1, us |-> x.us - y.us + 1000000]

\* is x < y for two unix times
Before(x, y) == Span(x, y).sec < 0

\* (x - y) / divisor for two unix times and a float divisor that is not 0: the
\* quotient in units, the millionths kept until the one rounding
RECURSIVE SpanOver(_, _, _)
SpanOver(x, y, divisor) ==
    IF divisor = NaN THEN NaN
    ELSE IF ~IsFinite(divisor) THEN 0
    ELSE IF divisor < 0 THEN SpanOver(y, x, -divisor)
    ELSE LET g == Gcd(1000000, divisor)
             span == Span(x, y)
         IN  InRange((span.sec * (1000000 \div g) + span.us \div g)
                         \div (divisor \div g))

\* min(times) for a non-empty list of unix times
UnixMin(times) ==
    times[CHOOSE i \in DOMAIN times :
              \A j \in DOMAIN times : ~Before(times[j], times[i])]

\* errlog.err_log_times: the unix time of every entry, or the ValueError of
\* the first timestamp that does not parse
err_log_times(err_log_df) ==
    LET stamps == Column(err_log_df, "timestamp")
    IN  Then(AllOk([i \in DOMAIN stamps |-> err_log_timestamp(stamps[i])]),
             LAMBDA parsed :
                 Ok([i \in DOMAIN parsed |-> err_log_fractional_sec(parsed[i])]))

\* errlog.err_log_times_relative: [(x - min(times))/divisor for x in times];
\* min and the division are only evaluated when there is a row
err_log_times_relative(err_log_df, divisor) ==
    Then(err_log_times(err_log_df),
         LAMBDA times :
             IF times # <<>> /\ divisor = 0 THEN Err("ZeroDivisionError")
             ELSE Ok([i \in DOMAIN times |->
                         SpanOver(times[i], UnixMin(times), divisor)]))

\* errlog.err_log_times_ms: divisor 1.0/1000.0
err_log_times_ms(err_log_df) == err_log_times_relative(err_log_df, FP \div 1000)

----------------------------------------------------------------------------
(* Time Normalizer: pandas *)

\* pd.DataFrame.from_dict(err_log_dict): the columns must have one length
from_dict(err_log_dict) ==
    IF Cardinality({Len(err_log_dict[c]) : c \in DOMAIN err_log_dict}) > 1
    THEN Err("ValueError")
    ELSE Ok(err_log_dict)

\* a pandas Timestamp, the value of a datetime64[ns]: the whole seconds
\* since the epoch and the nanoseconds of the second
Timestamp(sec, ns) == [sec |-> sec, ns |-> ns]

\* pandas' missing datetime, a value that is no instant
NaT == Timestamp(0, -1)

\* is the Timestamp x before the Timestamp y
Sooner(x, y) == x.sec < y.sec \/ (x.sec = y.sec /\ x.ns < y.ns)

\* pd.to_datetime of one cell: the empty string and the spellings of NaT and
\* NaN are NaT.  Any other cell must match the format and name a day of the
\* calendar, else ValueError; %f takes up to nine digits, the nanoseconds, and
\* the hour, minute and second are added to the day as they are, so that the
\* seconds 60 and 61 run on into the next minute
to_datetime(cell, f) ==
    LET timestamp(m, g) ==
            IF ~m.ok \/ m.end # Len(cell) + 1 THEN Err("ValueError")
            ELSE IF g["%Y"] < 1 \/ g["%d"] > DaysInMonth(g["%Y"], g["%m"])
            THEN Err("ValueError")
            ELSE Ok(Timestamp(
                        EpochSeconds(Datetime(g["%Y"], g["%m"], g["%d"],
                                              g["%H"], g["%M"], g["%S"], 0)),
                        g["%f"]))
        of(m) == timestamp(m, m.got)
    IN  IF cell \in {"", "NaT", "nat", "NAT", "nan", "NaN", "NAN"} THEN Ok(NaT)
        ELSE of(Match(cell, 1, Tokens(f), <<>>, 9))

\* imt_analysis.log_timestamp on a frame whose timestamps are strings
log_timestamp(frame, f) ==
    IF "timestamp" \notin DOMAIN frame THEN Err("KeyError")
    ELSE Then(AllOk([i \in DOMAIN frame["timestamp"] |->
                        to_datetime(frame["timestamp"][i], f)]),
              LAMBDA parsed : Ok([frame EXCEPT !["timestamp"] = parsed]))

\* (x - y) / np.timedelta64(1, conversion) for two Timestamps and a unit of
\* whole seconds: the exact quotient; nan when one of them is NaT
Elapsed(x, y, unit) ==
    IF x = NaT \/ y = NaT THEN Ratio(0, 0)
    ELSE FAdd(Ratio(x.sec - y.sec, unit), Decimal(x.ns - y.ns, unit, -9))

\* series.min() of Timestamps: NaT is skipped; NaT when nothing is left
Earliest(timestamps) ==
    LET real == {i \in DOMAIN timestamps : timestamps[i] # NaT}
    IN  IF real = {} THEN NaT
        ELSE timestamps[CHOOSE i \in real :
                 \A j \in real : ~Sooner(timestamps[j], timestamps[i])]

\* the units add_relative_time is called with: seconds, minutes, hours
Conversions == {"s", "m", "h"}

\* np.timedelta64(1, conversion), in whole seconds
timedelta64(conversion) ==
    CASE conversion = "s" -> 1
      [] conversion = "m" -> 60
      [] conversion = "h" -> 60 * 60

\* a plausible slip: anchored to the first row, not to the minimum
add_relative_time_first(sensor_df, conversion) ==
    LET timestamps == sensor_df["timestamp"]
    IN  IF "timestamp" \notin DOMAIN sensor_df THEN Err("KeyError")
        ELSE Ok(DictSet(sensor_df, "rel_time",
                    [i \in DOMAIN timestamps |->
                        Elapsed(timestamps[i], timestamps[1], timedelta64(conversion))]))

\* imt_analysis.add_relative_time on a frame whose timestamps are datetimes:
\* the frame with the column rel_time set, each cell the exact quotient (a
\* fraction; nan for a row without a timestamp)
add_relative_time(sensor_df, conversion) ==
    LET timestamps == sensor_df["timestamp"]
        min_timestamp == Earliest(timestamps)
    IN  IF "timestamp" \notin DOMAIN sensor_df THEN Err("KeyError")
        ELSE Ok(DictSet(sensor_df, "rel_time",
                    [i \in DOMAIN timestamps |->
                        Elapsed(timestamps[i], min_timestamp, timedelta64(conversion))]))

\* imt_analysis.err_log_dataframe: the DataFrame of the parsed lines, with
\* the timestamps parsed and rel_time, in minutes, over the whole log
imt_err_log_dataframe(ls) ==
    Then(from_dict(df_from(headers, ls)),
         LAMBDA frame :
             Then(log_timestamp(frame, fmt),
                  LAMBDA stamped : add_relative_time(stamped, "m")))

----------------------------------------------------------------------------
(* Stream Filter *)

sensor_prefix == "Sensor Data: "

pump_prefix == "changing pump rate to "

setup_marker == "Output Parameters"

\* the filter functions the callers pass to df_filter, by name; "None" is
\* the absent filter_fn and "true" the always-true lambda
FilterFn(fn, x) ==
    CASE fn = "sensor"        -> Contains(x, sensor_prefix)
      [] fn = "pump:Insulin"  -> Contains(x, pump_prefix) /\ Contains(x, "Insulin")
      [] fn = "pump:Dextrose" -> Contains(x, pump_prefix) /\ Contains(x, "Dextrose")
      [] fn = "setup"         -> Contains(x, setup_marker)
      [] fn = "pump"          -> Contains(x, pump_prefix)
      [] fn = "true"          -> TRUE

\* [x for x, keep in zip(xs, include) if keep]
RECURSIVE ZipKeep(_, _)
ZipKeep(xs, include) ==
    IF xs = <<>> \/ include = <<>> THEN <<>>
    ELSE (IF Head(include) THEN <<Head(xs)>> ELSE <<>>)
             \o ZipKeep(Tail(xs), Tail(include))

\* the rows of a table (columns of one length) at the positions idx, in order
TakeRows(T, idx) == [c \in DOMAIN T |-> [j \in DOMAIN idx |-> T[c][idx[j]]]]

\* the positions of s, in order, whose element satisfies Test
Positions(s, Test(_)) ==
    LET F[i \in 0..Len(s)] ==
            IF i = 0 THEN <<>>
            ELSE IF Test(s[i]) THEN Append(F[i - 1], i) ELSE F[i - 1]
    IN  F[Len(s)]

\* a plausible slip: every column cut to the number of kept rows, from the top
df_filter_head(err_log_df, filter_key, filter_fn) ==
    IF filter_fn = "None" THEN Ok(err_log_df)
    ELSE IF filter_key = "None" THEN Err("ValueError")
    ELSE LET keys == DOMAIN err_log_df
             col == IF filter_key \in keys THEN err_log_df[filter_key] ELSE <<>>
             n == Cardinality({i \in DOMAIN col : FilterFn(filter_fn, col[i])})
         IN  Ok([key \in keys \cup {filter_key} |->
                   IF key \in keys
                   THEN SubSeq(err_log_df[key], 1, Min(n, Len(err_log_df[key])))
                   ELSE <<>>])

\* df_filter of errlog.py and of imt_analysis.py (the same code).  The table
\* is a defaultdict(list): reading an absent filter_key yields [] and leaves
\* the key in the copy
df_filter(err_log_df, filter_key, filter_fn) ==
    IF filter_fn = "None" THEN Ok(err_log_df)
    ELSE IF filter_key = "None" THEN Err("ValueError")
    ELSE LET keys == DOMAIN err_log_df
             col == IF filter_key \in keys THEN err_log_df[filter_key] ELSE <<>>
             include == [i \in DOMAIN col |-> FilterFn(filter_fn, col[i])]
         IN  Ok([key \in keys \cup {filter_key} |->
                   IF key \in keys THEN ZipKeep(err_log_df[key], include)
                   ELSE <<>>])

----------------------------------------------------------------------------
(* Sensor Extractor *)

\* the four statements of imt_analysis.split_sensor_message, which are also
\* the first four of the loop of errlog.get_sensor_dataframes: the sensor id
\* and the value of one message, or the exception of the first statement
\* that raises.  json.loads makes every NaN literal the one nan object of
\* json.decoder, and float() of a float is that float: json_nan tells that
\* the value is this object (float() of a str makes a nan of its own).
sensor_reading(message, strict) ==
    LET read(parts) ==
            IF Len(parts) # 2 THEN Err("ValueError")
            ELSE Then(json_loads(parts[2], strict), LAMBDA data_point :
                 Then(Subscript(data_point, "Sensor ID"), LAMBDA id :
                 Then(PyInt(id), LAMBDA sensor_id :
                 Then(Subscript(data_point, "Value (mg/dL)"), LAMBDA v :
                 Then(PyFloat(v), LAMBDA value :
                      Ok([sensor_id |-> sensor_id, value |-> value,
                          json_nan |-> v.ty = "num" /\ v.n = NaN]))))))
    IN  read(SplitOnce(message, sensor_prefix))

\* imt_analysis.split_sensor_message: json.loads with strict=False; the
\* pd.Series of the sensor id and the value
split_sensor_message(message) ==
    Then(sensor_reading(message, FALSE), LAMBDA r :
         Ok([sensor_id |-> r.sensor_id, value |-> r.value]))

\* errlog.get_sensor_dataframes knows two sensors
total_sensors == 2

\* the first pass: frames[sensor_id]["timestamp"/"value"].append(...), row by
\* row; a Python list takes the indices -len..len-1.  json_nans[sensor_id]
\* tells, value by value of frames[sensor_id], which is the nan object of
\* json.decoder.
RECURSIVE sensor_first_pass(_, _, _, _)
sensor_first_pass(frames, json_nans, stamps, messages) ==
    LET at(sensor_id) ==
            IF sensor_id < 0 THEN sensor_id + Len(frames) + 1 ELSE sensor_id + 1
    IN  IF stamps = <<>> \/ messages = <<>>
        THEN Ok([frames |-> frames, json_nans |-> json_nans])
        ELSE Then(sensor_reading(Head(messages), TRUE), LAMBDA r :
                 IF r.sensor_id < -Len(frames) \/ r.sensor_id >= Len(frames)
                 THEN Err("IndexError")
                 ELSE sensor_first_pass(
                          [frames EXCEPT ![at(r.sensor_id)] =
                              DictAppend(DictAppend(@, "timestamp", Head(stamps)),
                                         "value", r.value)],
                          [json_nans EXCEPT ![at(r.sensor_id)] =
                              Append(@, r.json_nan)],
                          Tail(stamps), Tail(messages)))

\* the second pass: frames[sensor_id]["rel_time"] = err_log_times_relative(...)
sensor_second_pass(frames) ==
    Then(AllOk([i \in DOMAIN frames |-> err_log_times_relative(frames[i], 60 * FP)]),
         LAMBDA rel :
             Ok([i \in DOMAIN frames |->
                    [k \in DOMAIN frames[i] \cup {"timestamp", "rel_time"} |->
                        IF k = "rel_time" THEN rel[i] ELSE Column(frames[i], k)]]))

\* frames[0] == frames[1] for two dicts of lists: two lists are equal when
\* they are as long and each pair of elements is one object or two equal
\* ones.  A nan equals no float, itself included, so two nan values are a
\* pair only when both are the nan object of json.decoder.  (rel_time holds
\* no nan: it is computed from timestamps that parsed.)
SameFrame(f, g, f_json_nans, g_json_nans) ==
    /\ f = g
    /\ \A i \in DOMAIN Column(f, "value") :
          f["value"][i] = NaN => f_json_nans[i] /\ g_json_nans[i]

get_sensor_dataframes(err_log_df) ==
    LET passes(sensor_data_df) ==
            IF Len(sensor_data_df["message"]) = 0 THEN Err("AssertionError")
            ELSE Then(sensor_first_pass([i \in 1..total_sensors |-> <<>>],
                                        [i \in 1..total_sensors |-> <<>>],
                                        Column(sensor_data_df, "timestamp"),
                                        sensor_data_df["message"]),
                      LAMBDA first :
                 Then(sensor_second_pass(first.frames), LAMBDA frames :
                      IF SameFrame(frames[1], frames[2],
                                   first.json_nans[1], first.json_nans[2])
                      THEN Err("AssertionError")
                      ELSE Ok(frames)))
    IN  passes(df_filter(err_log_df, "message", "sensor").val)

\* imt_analysis.get_sensor_dfs on the DataFrame of imt_err_log_dataframe:
\* one frame per i in range(nunique), each the rows whose Sensor ID is i, with
\* every column of the log (rel_time included, as computed over the whole
\* log).  Assigning the two new columns from an empty selection raises.
get_sensor_dfs(err_log_df) ==
    LET by_id(full) ==
            Ok([i \in 1..Cardinality(Range(full["Sensor ID"])) |->
                   TakeRows(full, Positions(full["Sensor ID"],
                                            LAMBDA x : x = (i - 1) * FP))])
        frames(sel) ==
            LET sensor_df == TakeRows(err_log_df, sel)
            IN  IF sel = <<>> THEN Err("ValueError")
                ELSE Then(AllOk([i \in DOMAIN sel |->
                                    split_sensor_message(sensor_df["message"][i])]),
                          LAMBDA parsed :
                              by_id(sensor_df
                                  @@ ("Sensor ID" :>
                                         [i \in DOMAIN sel |-> parsed[i].sensor_id * FP])
                                  @@ ("Glucose (mg/dL)" :>
                                         [i \in DOMAIN sel |-> parsed[i].value])))
    IN  IF "message" \notin DOMAIN err_log_df THEN Err("KeyError")
        ELSE frames(Positions(err_log_df["message"],
                              LAMBDA x : Contains(x, sensor_prefix)))

----------------------------------------------------------------------------
(* Setup Info Extractor *)

\* the keys of the setup block, as get_app_setup_info formats them
name_key(i) == "Output Parameters[" \o ToString(i) \o "]:Output Parameter Name"

string_value_key(i) == "Output Parameters[" \o ToString(i) \o "]:String Value"

float_value_key(i) == "Output Parameters[" \o ToString(i) \o "]:Double Value"

\* the number of parameter slots get_app_setup_info reads
NumSetupParams == 8

SetupKeys ==
    UNION {{name_key(i), string_value_key(i), float_value_key(i)} :
              i \in 0..(NumSetupParams - 1)}

\* d[name] = value on a dict keyed by what json.loads returned: an equal key
\* already there (True == 1, False == 0) keeps its spelling and takes the value
SetItem(d, name, value) ==
    IF \E k \in DOMAIN d : AsKey(k) = AsKey(name)
    THEN [k \in DOMAIN d |-> IF AsKey(k) = AsKey(name) THEN value ELSE d[k]]
    ELSE d @@ (name :> value)

\* the three reads and the conversion of slot i: name, s and d, or the
\* exception of the first statement that raises
setup_slot(app_setup_raw, i) ==
    Then(Subscript(app_setup_raw, name_key(i)), LAMBDA name :
    Then(Subscript(app_setup_raw, string_value_key(i)), LAMBDA s :
    Then(Subscript(app_setup_raw, float_value_key(i)), LAMBDA double :
    Then(PyFloat(double), LAMBDA d :
         IF ~Hashable(name) THEN Err("TypeError")
         ELSE Ok([name |-> name, s |-> s, d |-> d])))))

\* strings[name] = s and floats[name] = d
setup_store(maps, slot) ==
    [strings |-> SetItem(maps.strings, slot.name, slot.s),
     floats |-> SetItem(maps.floats, slot.name, slot.d)]

\* a plausible slip: a slot with a missing or unparseable field is skipped
RECURSIVE setup_loop_skip(_, _, _)
setup_loop_skip(app_setup_raw, i, maps) ==
    LET step(slot) ==
            setup_loop_skip(app_setup_raw, i + 1,
                            IF slot.ok THEN setup_store(maps, slot.val) ELSE maps)
    IN  IF i = NumSetupParams THEN Ok(maps)
        ELSE step(setup_slot(app_setup_raw, i))

\* the loop "for i in range(8)" from slot i on: the two maps, or the
\* exception of the first slot that raises
RECURSIVE setup_loop(_, _, _)
setup_loop(app_setup_raw, i, maps) ==
    IF i = NumSetupParams THEN Ok(maps)
    ELSE Then(setup_slot(app_setup_raw, i), LAMBDA slot :
              setup_loop(app_setup_raw, i + 1, setup_store(maps, slot)))

\* get_app_setup_info of errlog.py, and of imt_analysis.py after its own
\* df_from(headers, load(filename)): the first message with "Output
\* Parameters" is parsed as JSON, whole
get_app_setup_info(err_log_df) ==
    LET parse(messages) ==
            IF Len(messages) = 0 THEN Err("IndexError")
            ELSE Then(json_loads(messages[1], TRUE), LAMBDA app_setup_raw :
                      setup_loop(app_setup_raw, 0,
                                 [strings |-> <<>>, floats |-> <<>>]))
    IN  parse(df_filter(err_log_df, "message", "setup").val["message"])

----------------------------------------------------------------------------
(* Pump Extractor *)

Substances == {"Insulin", "Dextrose"}

\* the three statements of imt_analysis.split_pump_message, which are also
\* the first three of the loop of errlog.get_pump_dataframe: the rate and the
\* third word of one message, or the exception of the first statement that
\* raises
pump_reading(message, prefix) ==
    LET words(bucket) ==
            Then(PyFloatStr(bucket[1]), LAMBDA rate :
                 IF Len(bucket) < 3 THEN Err("IndexError")
                 ELSE Ok([rate |-> rate, word |-> bucket[3]]))
        cut(parts) ==
            IF Len(parts) # 2 THEN Err("ValueError")
            ELSE words(Split(parts[2], " "))
    IN  cut(Split(message, prefix))

\* imt_analysis.split_pump_message: the substance is the third word without
\* its commas
split_pump_message(message, prefix) ==
    Then(pump_reading(message, prefix), LAMBDA r :
         Ok([rate |-> r.rate, substance |-> Remove(r.word, ",")]))

\* the loop of errlog.get_pump_dataframe over the selected messages:
\* pump_rate_df["value"].append(rate) for each, or the exception; the
\* substance is the third word without its last character
RECURSIVE pump_loop(_, _, _)
pump_loop(value, messages, substance) ==
    IF messages = <<>> THEN Ok(value)
    ELSE Then(pump_reading(Head(messages), pump_prefix), LAMBDA r :
              IF DropLastChar(r.word) # substance THEN Err("AssertionError")
              ELSE pump_loop(Append(value, r.rate), Tail(messages), substance))

\* the body of errlog.get_pump_dataframe after the filter: the rates are
\* appended to the column value of the filtered table (to what the filter
\* kept of it, when the table came with one), and the column rel_time is set
pump_frame(pump_rate_df, substance) ==
    Then(pump_loop(Column(pump_rate_df, "value"), pump_rate_df["message"],
                   substance),
         LAMBDA value :
    Then(err_log_times_relative(pump_rate_df, 60 * FP), LAMBDA rel_time :
         Ok([k \in DOMAIN pump_rate_df \cup {"timestamp", "rel_time"}
                    \cup (IF pump_rate_df["message"] = <<>> THEN {}
                          ELSE {"value"}) |->
               CASE k = "rel_time" -> rel_time
                 [] k = "value"    -> value
                 [] OTHER          -> Column(pump_rate_df, k)])))

\* a plausible slip: every pump message is selected, whatever its substance
get_pump_dataframe_any_substance(err_log_df, substance) ==
    IF substance \notin Substances THEN Err("ValueError")
    ELSE pump_frame(df_filter(err_log_df, "message", "pump").val, substance)

\* errlog.get_pump_dataframe
get_pump_dataframe(err_log_df, substance) ==
    IF substance \notin Substances THEN Err("ValueError")
    ELSE pump_frame(df_filter(err_log_df, "message", "pump:" \o substance).val,
                    substance)

\* imt_analysis.get_pump_df on the DataFrame of imt_err_log_dataframe: the
\* rows of the pump messages whose substance word is the requested one, with
\* every column of the log (rel_time as computed over the whole log).
\* Assigning the two new columns from an empty selection raises.
get_pump_df(err_log_df, substance) ==
    LET of_substance(full) ==
            Ok(TakeRows(full, Positions(full["Substance"], LAMBDA w : w = substance)))
        frame(sel) ==
            LET pump_rate_df == TakeRows(err_log_df, sel)
            IN  IF sel = <<>> THEN Err("ValueError")
                ELSE Then(AllOk([i \in DOMAIN sel |->
                                    split_pump_message(pump_rate_df["message"][i],
                                                       pump_prefix)]),
                          LAMBDA parsed :
                              of_substance(pump_rate_df
                                  @@ ("Rate (mL/hr)" :>
                                         [i \in DOMAIN sel |-> parsed[i].rate])
                                  @@ ("Substance" :>
                                         [i \in DOMAIN sel |-> parsed[i].substance])))
    IN  IF substance \notin Substances THEN Err("ValueError")
        ELSE IF "message" \notin DOMAIN err_log_df THEN Err("KeyError")
        ELSE frame(Positions(err_log_df["message"],
                             LAMBDA x : Contains(x, pump_prefix)))
----------------------------------------------------------------------------
(* Glycemia Classifier *)

\* bins = [float('-inf'), 39.99, 69.99, 140, float('inf')]
bins == <<NegInf, 39990, 69990, 140 * FP, Inf>>

labels == <<"Severe hypoglycemia", "Hypoglycemia", "Normoglycemia", "Hyperglycemia">>

df_labels == <<"Data Log", "Sensor 0", "Sensor 1">>

\* a plausible slip: bins closed on the left (right=False)
cut_left_closed(v) ==
    LET ks == {k \in DOMAIN labels : v # NaN /\ bins[k] <= v /\ v < bins[k + 1]}
    IN  IF ks = {} THEN 0 ELSE CHOOSE k \in ks : TRUE

\* pd.cut(v, bins, labels): the k with v in (bins[k], bins[k+1]], counted
\* from 1; 0 (pandas' NaN) for a value in no bin: NaN and -inf
cut(v) ==
    LET ks == {k \in DOMAIN labels : v # NaN /\ bins[k] < v /\ v <= bins[k + 1]}
    IN  IF ks = {} THEN 0 ELSE CHOOSE k \in ks : TRUE

\* (cat_counts['count'] / num_entries) * 100 for each label, num_entries
\* being len(i); 0/0 is NaN
percentages(values) ==
    LET num_entries == Len(values)
        count(k) == Cardinality({i \in DOMAIN values : cut(values[i]) = k})
    IN  [k \in DOMAIN labels |->
            IF num_entries = 0 THEN NaN
            ELSE (count(k) * 100 * FP) \div num_entries]

\* get_glycemia_percentages: one row of percentages for each of the first
\* three of [data_log_df, *get_sensor_dfs(err_log_df)], labelled by df_labels
get_glycemia_percentages(err_log_df, data_log_df) ==
    LET rows(df_list) ==
            IF "Glucose (mg/dL)" \notin DOMAIN data_log_df THEN Err("KeyError")
            ELSE Ok([j \in 1..Min(Len(df_list), Len(df_labels)) |->
                        [label |-> df_labels[j],
                         perc |-> percentages(df_list[j]["Glucose (mg/dL)"])]])
    IN  Then(get_sensor_dfs(err_log_df), LAMBDA dfs : rows(<<data_log_df>> \o dfs))

\* how the model writes the category of a value in no bin
NoCategory == "NaN"

\* i['Glucose Category'] = pd.cut(...) on the caller's data_log_df
WithCategory(data_log_df) ==
    DictSet(data_log_df, "Glucose Category",
        [i \in DOMAIN data_log_df["Glucose (mg/dL)"] |->
            LET k == cut(data_log_df["Glucose (mg/dL)"][i])
            IN  IF k = 0 THEN NoCategory ELSE labels[k]])

----------------------------------------------------------------------------
(* Dose Integrator *)

\* s[:-1]
DropLast(s) == SubSeq(s, 1, Len(s) - 1)

\* np.diff(s)
Diff(s) == [i \in 1..(Len(s) - 1) |-> FSub(s[i + 1], s[i])]

\* np.dot(a, b) of two vectors of one length
RECURSIVE Dot(_, _)
Dot(a, b) ==
    IF a = <<>> THEN Ratio(0, 1)
    ELSE FAdd(FMul(Head(a), Head(b)), Dot(Tail(a), Tail(b)))

\* a column of floats, as fractions
Fracs(s) == [i \in DOMAIN s |-> Frac(s[i])]

\* a plausible slip: each interval weighted by the rate at its end
integrated_volume_next_rate(rate, rel_time) ==
    Dot(SubSeq(Fracs(rate), 2, Len(rate)),
        Diff([i \in DOMAIN rel_time |-> FDiv(rel_time[i], Ratio(60, 1))]))

\* np.dot(df['Rate (mL/hr)'][:-1], np.diff(df['rel_time']/60)), on the exact
\* rel_time of the frame
integrated_volume(rate, rel_time) ==
    Dot(DropLast(Fracs(rate)),
        Diff([i \in DOMAIN rel_time |-> FDiv(rel_time[i], Ratio(60, 1))]))

\* series.max() - series.min()
Spread(s) == FSub(MaxOf(s), MinOf(s))

\* get_dextrose_rate_stats, from the frame get_pump_df returned: the volume it
\* prints and the mg/kg/min it returns
get_dextrose_rate_stats(err_log_df, setup_info) ==
    LET stats(volume, total_time) ==
            LET dex_concentration == Frac(setup_info["Dextrose Concentration (g/100mL)"])
                mg_dextrose ==
                    FMul(FMul(FMul(dex_concentration, Ratio(1, 100)), volume),
                         Ratio(1000, 1))
                patient_weight == Frac(setup_info["Patient Weight (kg)"])
                mg_kg_min == FDiv(FDiv(mg_dextrose, patient_weight), total_time)
            IN  IF "Dextrose Concentration (g/100mL)" \notin DOMAIN setup_info
                       \/ "Patient Weight (kg)" \notin DOMAIN setup_info
                THEN Err("KeyError")
                ELSE Ok([volume |-> Float(volume), rate |-> Float(mg_kg_min)])
    IN  Then(get_pump_df(err_log_df, "Dextrose"), LAMBDA dextrose_rate_df :
             stats(integrated_volume(dextrose_rate_df["Rate (mL/hr)"],
                                     dextrose_rate_df["rel_time"]),
                   Spread(dextrose_rate_df["rel_time"])))

\* get_insulin_rate_stats: the volume it prints and the U/kg/hr it returns
get_insulin_rate_stats(err_log_df, setup_info) ==
    LET stats(volume, total_time_hrs) ==
            LET ins_concentration == Frac(setup_info["Insulin Concentration (U/mL)"])
                u_of_insulin ==
                    FMul(FMul(FMul(ins_concentration, Ratio(1, 100)), volume),
                         Ratio(1000, 1))
                patient_weight == Frac(setup_info["Patient Weight (kg)"])
                u_kg_hr == FDiv(FDiv(u_of_insulin, patient_weight), total_time_hrs)
            IN  IF "Insulin Concentration (U/mL)" \notin DOMAIN setup_info
                       \/ "Patient Weight (kg)" \notin DOMAIN setup_info
                THEN Err("KeyError")
                ELSE Ok([volume |-> Float(volume), rate |-> Float(u_kg_hr)])
    IN  Then(get_pump_df(err_log_df, "Insulin"), LAMBDA insulin_rate_df :
             stats(integrated_volume(insulin_rate_df["Rate (mL/hr)"],
                                     insulin_rate_df["rel_time"]),
                   FDiv(Spread(insulin_rate_df["rel_time"]), Ratio(60, 1))))
----------------------------------------------------------------------------
(* Log lines the specifications draw their inputs from *)

\* the payload of a sensor message
SensorObj(id, v) == JObj(("Sensor ID" :> JNum(id * FP)) @@ ("Value (mg/dL)" :> JNum(v)))

SensorMsg(id, v) == sensor_prefix \o JsonText(SensorObj(id, v))

\* "changing pump rate to <rate> mL/hr <Substance>, 5 Seconds remaining"
PumpMsg(rate, substance) ==
    pump_prefix \o NumText(rate) \o " mL/hr " \o substance \o ", 5 Seconds remaining"

\* a full line: timestamp;severity;UNUSED;message;code;source;call chain
LogLine(ts, msg) ==
    ts \o col_delim \o "INFO" \o col_delim \o col_delim \o msg
       \o col_delim \o col_delim \o col_delim

\* 2022-01-01 at 12:00, 13:00, 13:30 and 14:00
T0 == "20220101120000.000000"

T1 == "20220101130000.000000"

T1h == "20220101133000.000000"

T2 == "20220101140000.000000"

----------------------------------------------------------------------------
(* The operations, as actions.  A log is loaded once; then operations are  *)
(* called on the table until one returns a result.                         *)

InitWith(L) ==
    /\ lines \in SeqsUpTo(L, MaxLines)
    /\ data_log = <<>>
    /\ lib = ""
    /\ df = <<>>
    /\ pc = "start"
    /\ call = NoCall
    /\ res = Ok(<<>>)

\* errlog.err_log_dataframe: the table of raw cells
ErrLogDataframe ==
    /\ pc = "start"
    /\ df' = err_log_dataframe(lines)
    /\ lib' = "errlog"
    /\ pc' = "loaded"
    /\ UNCHANGED <<lines, data_log, call, res>>

\* a call that returns or raises r and leaves its arguments alone
Returns(op, key, fn, substance, r) ==
    /\ call' = [op |-> op, key |-> key, fn |-> fn, substance |-> substance,
                info |-> <<>>]
    /\ res' = r
    /\ pc' = "done"
    /\ UNCHANGED <<lines, data_log, lib, df>>

FilterKeys == {"timestamp", "message", "call chain", "value", "None"}

FilterFns == {"sensor", "pump:Insulin", "setup", "true", "None"}

DfFilter ==
    /\ pc = "loaded"
    /\ lib = "errlog"
    /\ \E key \in FilterKeys, fn \in FilterFns :
          Returns("df_filter", key, fn, "", df_filter(df, key, fn))

\* imt_analysis.err_log_dataframe: the DataFrame with parsed timestamps and
\* rel_time, or the exception
ImtErrLogDataframe ==
    /\ pc = "start"
    /\ LET r == imt_err_log_dataframe(lines)
       IN  IF r.ok
           THEN /\ df' = r.val
                /\ lib' = "imt_analysis"
                /\ pc' = "loaded"
                /\ UNCHANGED <<lines, data_log, call, res>>
           ELSE /\ call' = [NoCall EXCEPT !.op = "err_log_dataframe"]
                /\ res' = r
                /\ pc' = "done"
                /\ UNCHANGED <<lines, data_log, lib, df>>

\* pd.DataFrame.from_dict(df_from(headers, load(filename))): the frame a
\* caller of log_timestamp and add_relative_time starts from, its timestamps
\* still strings
FromDict ==
    /\ pc = "start"
    /\ LET r == from_dict(df_from(headers, lines))
       IN  IF r.ok
           THEN /\ df' = r.val
                /\ lib' = "imt_analysis"
                /\ pc' = "frame"
                /\ UNCHANGED <<lines, data_log, call, res>>
           ELSE /\ call' = [NoCall EXCEPT !.op = "from_dict"]
                /\ res' = r
                /\ pc' = "done"
                /\ UNCHANGED <<lines, data_log, lib, df>>

\* imt_analysis.log_timestamp(df, fmt): the caller's frame gets its
\* timestamps parsed, or the call raises and the frame stays as it was
LogTimestamp ==
    /\ pc = "frame"
    /\ \E f \in {fmt, fmt_slashes} :
          LET r == log_timestamp(df, f)
          IN  /\ call' = [NoCall EXCEPT !.op = "log_timestamp", !.key = f]
              /\ res' = r
              /\ df' = IF r.ok THEN r.val ELSE df
              /\ pc' = IF r.ok THEN "stamped" ELSE "done"
              /\ UNCHANGED <<lines, data_log, lib>>

\* imt_analysis.add_relative_time(sensor_df, conversion): the caller's frame
\* gets the column rel_time.  On timestamps that are still strings the
\* subtraction of two str raises TypeError.
AddRelativeTime ==
    /\ pc \in {"frame", "stamped", "loaded"}
    /\ lib = "imt_analysis"
    /\ \E conversion \in Conversions :
          LET r == IF "timestamp" \notin DOMAIN df THEN Err("KeyError")
                   ELSE IF pc = "frame" THEN Err("TypeError")
                   ELSE add_relative_time(df, conversion)
          IN  /\ call' = [NoCall EXCEPT !.op = "add_relative_time", !.key = conversion]
              /\ res' = r
              /\ df' = IF r.ok THEN r.val ELSE df
              /\ pc' = IF r.ok THEN "loaded" ELSE "done"
              /\ UNCHANGED <<lines, data_log, lib>>

\* a call of errlog.py that reads err_log_df["timestamp"] on the caller's
\* defaultdict: a table without the key has it, empty, afterwards
ReturnsTouching(op, key, r) ==
    /\ call' = [NoCall EXCEPT !.op = op, !.key = key]
    /\ res' = r
    /\ df' = Touched(df, "timestamp")
    /\ pc' = "done"
    /\ UNCHANGED <<lines, data_log, lib>>

ErrLogTimes ==
    /\ pc = "loaded"
    /\ lib = "errlog"
    /\ ReturnsTouching("err_log_times", "", err_log_times(df))

\* the divisors the callers use: seconds (the default) and minutes
Divisors == {FP, 60 * FP}

ErrLogTimesRelative ==
    /\ pc = "loaded"
    /\ lib = "errlog"
    /\ \E divisor \in Divisors :
          ReturnsTouching("err_log_times_relative", ToString(divisor),
                          err_log_times_relative(df, divisor))

ErrLogTimesMs ==
    /\ pc = "loaded"
    /\ lib = "errlog"
    /\ ReturnsTouching("err_log_times_ms", "", err_log_times_ms(df))

GetSensorDataframes ==
    /\ pc = "loaded"
    /\ lib = "errlog"
    /\ Returns("get_sensor_dataframes", "", "", "", get_sensor_dataframes(df))

GetSensorDfs ==
    /\ pc = "loaded"
    /\ lib = "imt_analysis"
    /\ Returns("get_sensor_dfs", "", "", "", get_sensor_dfs(df))

\* the substances a caller may ask for; "Saline" is not one the code accepts
Requested == Substances \cup {"Saline"}

GetPumpDataframe ==
    /\ pc = "loaded"
    /\ lib = "errlog"
    /\ \E substance \in Requested :
          Returns("get_pump_dataframe", "", "", substance,
                  get_pump_dataframe(df, substance))

GetPumpDf ==
    /\ pc = "loaded"
    /\ lib = "imt_analysis"
    /\ \E substance \in Requested :
          Returns("get_pump_df", "", "", substance, get_pump_df(df, substance))

\* errlog.get_app_setup_info(df)
GetAppSetupInfo ==
    /\ pc = "loaded"
    /\ lib = "errlog"
    /\ Returns("get_app_setup_info", "", "", "", get_app_setup_info(df))

\* imt_analysis.get_app_setup_info(filename): the file is loaded and parsed
\* by the call itself
ImtGetAppSetupInfo ==
    /\ pc = "start"
    /\ call' = [NoCall EXCEPT !.op = "get_app_setup_info"]
    /\ res' = get_app_setup_info(df_from(headers, lines))
    /\ lib' = "imt_analysis"
    /\ pc' = "done"
    /\ UNCHANGED <<lines, data_log, df>>

\* the setup_info of the data log: concentrations and the patient's weight
SetupInfos ==
    { ("Dextrose Concentration (g/100mL)" :> 10 * FP)
          @@ ("Insulin Concentration (U/mL)" :> FP)
          @@ ("Patient Weight (kg)" :> w * FP) : w \in {50, 80} }

GetDextroseRateStats ==
    /\ pc = "loaded"
    /\ lib = "imt_analysis"
    /\ \E setup_info \in SetupInfos :
          /\ call' = [NoCall EXCEPT !.op = "get_dextrose_rate_stats",
                                    !.substance = "Dextrose",
                                    !.info = setup_info]
          /\ res' = get_dextrose_rate_stats(df, setup_info)
          /\ pc' = "done"
          /\ UNCHANGED <<lines, data_log, lib, df>>

GetInsulinRateStats ==
    /\ pc = "loaded"
    /\ lib = "imt_analysis"
    /\ \E setup_info \in SetupInfos :
          /\ call' = [NoCall EXCEPT !.op = "get_insulin_rate_stats",
                                    !.substance = "Insulin",
                                    !.info = setup_info]
          /\ res' = get_insulin_rate_stats(df, setup_info)
          /\ pc' = "done"
          /\ UNCHANGED <<lines, data_log, lib, df>>

\* get_glycemia_percentages adds the column Glucose Category to the
\* data_log_df it was given
GetGlycemiaPercentages ==
    /\ pc = "loaded"
    /\ lib = "imt_analysis"
    /\ LET r == get_glycemia_percentages(df, data_log)
       IN  /\ res' = r
           /\ data_log' = IF r.ok THEN WithCategory(data_log) ELSE data_log
    /\ call' = [NoCall EXCEPT !.op = "get_glycemia_percentages"]
    /\ pc' = "done"
    /\ UNCHANGED <<lines, lib, df>>

----------------------------------------------------------------------------
(* Specification of the Record Parser and the Stream Filter *)

FilterLines ==
    { LogLine(T0, SensorMsg(0, 120 * FP)),
      LogLine(T1, PumpMsg(FP, "Insulin")),
      LogLine(T2, "started"),
      \* the sensor prefix inside a longer text
      LogLine(T0, "xSensor Data: y"),
      \* fewer fields than headers
      T1 \o ";WARN",
      \* the empty line
      "",
      \* a delimiter inside the message: eight fields
      T2 \o ";INFO;;a;b;;;" }

InitFilter == InitWith(FilterLines)

NextFilter == ErrLogDataframe \/ DfFilter

SpecFilter == InitFilter /\ [][NextFilter]_vars

----------------------------------------------------------------------------
(* Properties of tables *)

ColLens(T) == {Len(T[c]) : c \in DOMAIN T}

EqualLength(T) == Cardinality(ColLens(T)) <= 1

\* the number of records of a table: the length of its longest column
NumRecords(T) ==
    IF DOMAIN T = {} THEN 0
    ELSE CHOOSE n \in ColLens(T) : \A m \in ColLens(T) : m <= n

\* the rows of a table whose columns have equal length
Rows(T) == [i \in 1..NumRecords(T) |-> [c \in DOMAIN T |-> T[c][i]]]

FilterCalled ==
    /\ pc = "done"
    /\ call.op = "df_filter"
    /\ call.fn # "None"
    /\ call.key \in DOMAIN df

\* C1: for a table with columns of equal length, a key that is one of its
\* columns and a predicate, df_filter returns a table with the same column
\* names and columns of equal length whose rows are exactly the rows of the
\* input that satisfy the predicate on the key, in their original order, each
\* row with the cells of one input position
C1_FilterKeepsMatchingRows ==
    (FilterCalled /\ EqualLength(df)) =>
        /\ res.ok
        /\ DOMAIN res.val = DOMAIN df
        /\ EqualLength(res.val)
        /\ \A i \in 1..NumRecords(res.val) :
              FilterFn(call.fn, res.val[call.key][i])
        /\ Rows(res.val)
              = SelectSeq(Rows(df), LAMBDA r : FilterFn(call.fn, r[call.key]))

\* a filter of a three-row table drops the first and the last row and keeps
\* the middle one
C1_Witness ==
    /\ FilterCalled
    /\ EqualLength(df)
    /\ NumRecords(df) = 3
    /\ NumRecords(res.val) = 1
    /\ FilterFn(call.fn, df[call.key][2])

\* C5: the table df_from builds from the seven headers holds one record per
\* input line: its number of records is the number of lines
C5_OneRecordPerLine ==
    pc # "start" => NumRecords(df) = Len(lines)

\* a log of three lines, one of them empty and one short, has been loaded
C5_Witness ==
    /\ pc = "loaded"
    /\ Len(lines) = 3
    /\ \E i \in DOMAIN lines : lines[i] = ""
    /\ \E i \in DOMAIN lines : Len(Split(lines[i], col_delim)) = 2

\* position i of column h holds field h of input line i
Aligned(T, ls) ==
    \A k \in DOMAIN headers :
        headers[k] \in DOMAIN T =>
            \A i \in DOMAIN T[headers[k]] :
                /\ i \in DOMAIN ls
                /\ k \in DOMAIN Split(ls[i], col_delim)
                /\ T[headers[k]][i] = Split(ls[i], col_delim)[k]

\* C6: in every table df_from produces, for any input lines (lines with
\* fewer than seven fields included), all columns have the same length and
\* position i of every column belongs to input line i; every table df_filter
\* returns on it has columns of the same length
C6_ColumnsAligned ==
    /\ pc # "start" => EqualLength(df) /\ Aligned(df, lines)
    /\ (pc = "done" /\ call.op = "df_filter" /\ res.ok) => EqualLength(res.val)

\* df_filter was called with a predicate and a key that is no column of the
\* table
AbsentKeyFiltered ==
    /\ pc = "done"
    /\ call.op = "df_filter"
    /\ call.fn # "None"
    /\ call.key # "None"
    /\ call.key \notin DOMAIN df

\* C14: df_filter called with a predicate and a key that is not a column of
\* the table fails with an error and returns no table
C14_AbsentKeyFails ==
    AbsentKeyFiltered => ~res.ok

----------------------------------------------------------------------------
(* Specification of the Time Normalizer *)

\* 2022-01-01 at 12:00:00, 12:01:00 and 12:01:30.5
S0 == "20220101120000.000000"

S1 == "20220101120100.000000"

S1h == "20220101120130.5"

\* the instant of S1, written with the second 60
S60 == "20220101120060.0"

TimeLines ==
    { LogLine(S0, "a"),
      LogLine(S1, "a"),
      LogLine(S1h, "a"),
      \* a timestamp that does not match the format
      LogLine("yesterday", "a"),
      \* no timestamp
      LogLine("", "a"),
      \* a second beyond 59: pandas runs on into the next minute, strptime
      \* raises
      LogLine(S60, "a"),
      \* a timestamp in the format with slashes
      LogLine("01/01/2022 12:00:30.5", "a"),
      \* fewer fields than headers
      S1 \o ";WARN" }

InitTime == InitWith(TimeLines)

NextTime ==
    \/ ErrLogDataframe
    \/ ImtErrLogDataframe
    \/ FromDict
    \/ LogTimestamp
    \/ AddRelativeTime
    \/ ErrLogTimes
    \/ ErrLogTimesRelative
    \/ ErrLogTimesMs

SpecTime == InitTime /\ [][NextTime]_vars

NonDecreasing(s) == \A i, j \in DOMAIN s : i <= j => s[i] <= s[j]

\* the unix times ts are in non-decreasing order
InTimeOrder(ts) == \A i, j \in DOMAIN ts : i <= j => ~Before(ts[j], ts[i])

\* rel is the relative time of the unix times ts: 0 at the minimum, never
\* negative, non-decreasing when ts is
RelativeTo(rel, ts) ==
    /\ DOMAIN rel = DOMAIN ts
    /\ \A i \in DOMAIN ts :
          /\ (\A j \in DOMAIN ts : ~Before(ts[j], ts[i])) => rel[i] = 0
          /\ rel[i] >= 0
    /\ InTimeOrder(ts) => NonDecreasing(rel)

RelTimeCalled ==
    /\ pc = "done"
    /\ lib = "errlog"
    /\ call.op \in {"err_log_times_relative", "err_log_times_ms"}

\* every row of the table has a timestamp that parses
StampsParse(T) == err_log_times(T).ok

\* every row of the frame has a timestamp
NoNaT(frame) == \A i \in DOMAIN frame["timestamp"] : frame["timestamp"][i] # NaT

\* the row i of the frame holds the minimum of the frame's timestamps
HoldsMinimum(frame, i) ==
    /\ frame["timestamp"][i] # NaT
    /\ \A j \in DOMAIN frame["timestamp"] :
          frame["timestamp"][j] # NaT =>
              ~Sooner(frame["timestamp"][j], frame["timestamp"][i])

\* the rows of the frame are in non-decreasing timestamp order
FrameInTimeOrder(frame) ==
    /\ NoNaT(frame)
    /\ \A i, j \in DOMAIN frame["timestamp"] :
          i <= j => ~Sooner(frame["timestamp"][j], frame["timestamp"][i])

\* the exact float q is a number that is not negative
NonNegative(q) == q # Ratio(0, 0) /\ ~FLess(q, Ratio(0, 1))

\* the rel_time of the frame is relative to its timestamps: 0 at the
\* minimum, never negative, non-decreasing when the timestamps are
FrameRelative(frame) ==
    /\ DOMAIN frame["rel_time"] = DOMAIN frame["timestamp"]
    /\ \A i \in DOMAIN frame["timestamp"] :
          /\ HoldsMinimum(frame, i) => frame["rel_time"][i] = Ratio(0, 1)
          /\ NonNegative(frame["rel_time"][i])
    /\ FrameInTimeOrder(frame) =>
          \A i, j \in DOMAIN frame["rel_time"] :
              i <= j => ~FLess(frame["rel_time"][j], frame["rel_time"][i])

\* C7: for every non-empty table, err_log_times_relative and
\* add_relative_time give 0 to every row with the table's minimum timestamp
\* and a non-negative value to every other row, and relative times are
\* non-decreasing when the rows are in non-decreasing timestamp order.  (A
\* call that raises on a timestamp that does not parse gives no relative
\* time; it is no case of the claim.)
C7_RelativeTimeZeroAtMin ==
    /\ (RelTimeCalled /\ Column(df, "timestamp") # <<>>) =>
          IF res.ok THEN RelativeTo(res.val, err_log_times(df).val)
          ELSE res.err = "ValueError" /\ ~StampsParse(df)
    /\ (pc = "loaded" /\ lib = "imt_analysis" /\ df["timestamp"] # <<>>) =>
          FrameRelative(df)

\* what holds of the claim: the relative time of a table whose rows all hold
\* a timestamp
RelativeTimeOfStampedRows ==
    /\ (RelTimeCalled /\ Column(df, "timestamp") # <<>> /\ StampsParse(df)) =>
          res.ok /\ RelativeTo(res.val, err_log_times(df).val)
    /\ (pc = "loaded" /\ lib = "imt_analysis" /\ NoNaT(df)) => FrameRelative(df)

\* a frame of two rows, the second without a timestamp: its rel_time is 0
\* and nan
NaTRowReached ==
    /\ pc = "loaded"
    /\ lib = "imt_analysis"
    /\ Len(df["timestamp"]) = 2
    /\ df["timestamp"][2] = NaT
    /\ df["rel_time"] = <<Ratio(0, 1), Ratio(0, 0)>>

\* a frame of the lines stamped S0, S60 and S1: the second 60 is the instant
\* of S1, a minute after S0
SecondSixtyReached ==
    /\ pc = "loaded"
    /\ lib = "imt_analysis"
    /\ lines = <<LogLine(S0, "a"), LogLine(S60, "a"), LogLine(S1, "a")>>
    /\ df["timestamp"][2] = df["timestamp"][3]
    /\ df["rel_time"] = <<Ratio(0, 1), Ratio(1, 1), Ratio(1, 1)>>

----------------------------------------------------------------------------
(* Specification of the Sensor Extractor *)

SensorLines ==
    { LogLine(T0, SensorMsg(0, 120 * FP)),
      LogLine(T0, SensorMsg(1, 120 * FP)),
      LogLine(T0, SensorMsg(0, 130 * FP)),
      LogLine(T1, SensorMsg(0, 120 * FP)),
      LogLine(T1, SensorMsg(1, 130 * FP)),
      LogLine(T2, SensorMsg(2, 120 * FP)),
      LogLine(T2, SensorMsg(-1, 130 * FP)),
      LogLine(T0, "started"),
      \* a payload without the value field
      LogLine(T1, sensor_prefix \o "{\"Sensor ID\":0}"),
      \* a payload whose identifier is a string of digits
      LogLine(T1, sensor_prefix \o "{\"Sensor ID\":\"1\",\"Value (mg/dL)\":99.5}"),
      \* a payload that is JSON and no object
      LogLine(T2, sensor_prefix \o "5"),
      \* two readings of one instant whose value is the literal NaN
      LogLine(T2, sensor_prefix \o "{\"Sensor ID\":0,\"Value (mg/dL)\":NaN}"),
      LogLine(T2, sensor_prefix \o "{\"Sensor ID\":1,\"Value (mg/dL)\":NaN}") }

InitSensor == InitWith(SensorLines)

NextSensor ==
    ErrLogDataframe \/ ImtErrLogDataframe \/ GetSensorDataframes \/ GetSensorDfs

SpecSensor == InitSensor /\ [][NextSensor]_vars

SensorsReturned ==
    /\ pc = "done"
    /\ call.op \in {"get_sensor_dataframes", "get_sensor_dfs"}
    /\ res.ok

\* the number of readings of a returned per-sensor sequence
FrameLen(frame) == Len(Column(frame, "timestamp"))

\* the message of a line with seven fields
MessageOf(l) == Split(l, col_delim)[4]

\* the lines of the log whose message holds the sensor prefix
SelectedLines ==
    SelectSeq(lines, LAMBDA l : Contains(MessageOf(l), sensor_prefix))

\* the instant of a line of the log, as the frames of the module hold it
StampOf(l) ==
    IF lib = "errlog" THEN Split(l, col_delim)[1]
    ELSE to_datetime(Split(l, col_delim)[1], fmt).val

\* sequence f is the selected records that owner sends to it, in log order
HoldsItsRecords(frames, f, owner) ==
    LET mine == SelectSeq([i \in DOMAIN SelectedLines |-> i], LAMBDA i : owner[i] = f)
    IN  /\ FrameLen(frames[f]) = Len(mine)
        /\ \A j \in DOMAIN mine :
              frames[f]["timestamp"][j] = StampOf(SelectedLines[mine[j]])

\* the lengths of the returned sequences, summed
RECURSIVE TotalLen(_)
TotalLen(frames) ==
    IF frames = <<>> THEN 0 ELSE FrameLen(Head(frames)) + TotalLen(Tail(frames))

\* C2: sensor demultiplexing is a partition: every record whose message holds
\* the prefix "Sensor Data: " is in exactly one returned per-sensor sequence,
\* and the lengths of the returned sequences sum to the number of selected
\* records
C2_SensorPartition ==
    SensorsReturned =>
        /\ TotalLen(res.val) = Len(SelectedLines)
        /\ \E owner \in [DOMAIN SelectedLines -> DOMAIN res.val] :
              \A f \in DOMAIN res.val : HoldsItsRecords(res.val, f, owner)

SensorCalled ==
    pc = "done" /\ call.op \in {"get_sensor_dataframes", "get_sensor_dfs"}

\* the decoded identifier and value of each selected record, in log order
Readings ==
    [i \in DOMAIN SelectedLines |->
        sensor_reading(MessageOf(SelectedLines[i]), lib = "errlog")]

\* the identifiers the selected records carry
ObservedIds == {Readings[i].val.sensor_id : i \in DOMAIN Readings}

\* the number of sequences the extractor produces: two in errlog.py, the
\* count of distinct identifiers in imt_analysis.py
NumSequences ==
    IF lib = "errlog" THEN total_sensors ELSE Cardinality(ObservedIds)

\* every selected record decodes, and one of them carries an identifier
\* outside [0, N)
IdOutOfRange ==
    /\ SelectedLines # <<>>
    /\ \A i \in DOMAIN Readings : Readings[i].ok
    /\ \E id \in ObservedIds : id < 0 \/ id >= NumSequences

\* C11: when a selected sensor message carries an identifier outside [0, N),
\* N the number of sequences produced, sensor extraction fails with an
\* error: the reading is neither dropped nor placed in another sequence
C11_IdOutOfRangeFails ==
    (SensorCalled /\ IdOutOfRange) => ~res.ok

\* the timestamps, values and relative times of a per-sensor sequence
Content(frame) ==
    <<Column(frame, "timestamp"),
      Column(frame, IF lib = "errlog" THEN "value" ELSE "Glucose (mg/dL)"),
      Column(frame, "rel_time")>>

\* errlog.get_sensor_dataframes on the two NaN readings of one instant: the
\* two frames hold one nan object and compare equal
NaNFramesRejected ==
    /\ SensorCalled
    /\ lib = "errlog"
    /\ Len(lines) = 2
    /\ \A i \in DOMAIN lines : Contains(lines[i], ":NaN}")
    /\ lines[1] # lines[2]
    /\ res = Err("AssertionError")

\* C17: sensor extraction fails with an error, and returns no sequences, when
\* two sequences for distinct sensor identifiers end up structurally
\* identical (same timestamps, values and relative times): it never returns
\* two identical per-sensor sequences
C17_NoIdenticalSequences ==
    (SensorCalled /\ res.ok) =>
        \A f, g \in DOMAIN res.val :
            f # g => Content(res.val[f]) # Content(res.val[g])

----------------------------------------------------------------------------
(* Specification of the Pump Extractor *)

\* a pump message that names Insulin as its substance and mentions Dextrose
\* further on
MixedPumpMsg == pump_prefix \o "1 mL/hr Insulin, Dextrose"

\* a pump message whose substance word has a comma inside
CommaPumpMsg == pump_prefix \o "2 mL/hr Insu,lin, 5 Seconds remaining"

\* a pump message whose rate is no number
WordRatePumpMsg == pump_prefix \o "fast mL/hr Dextrose, 5 Seconds remaining"

\* a pump message of two words
ShortPumpMsg == pump_prefix \o "3 Dextrose,"

\* a pump message that holds the prefix twice
TwicePumpMsg ==
    PumpMsg(3 * FP, "Dextrose") \o " then " \o pump_prefix \o "4 mL/hr Dextrose,"

PumpLines ==
    { LogLine(T0, PumpMsg(FP, "Insulin")),
      LogLine(T1, PumpMsg(2 * FP, "Insulin")),
      LogLine(T0, PumpMsg(3 * FP, "Dextrose")),
      LogLine(T1h, PumpMsg(3 * FP, "Dextrose")),
      LogLine(T1, MixedPumpMsg),
      LogLine(T2, CommaPumpMsg),
      LogLine(T1, WordRatePumpMsg),
      LogLine(T2, ShortPumpMsg),
      LogLine(T2, TwicePumpMsg) }

InitPump == InitWith(PumpLines)

NextPump ==
    \/ ErrLogDataframe
    \/ ImtErrLogDataframe
    \/ GetPumpDataframe
    \/ GetPumpDf

SpecPump == InitPump /\ [][NextPump]_vars

PumpCalled ==
    /\ pc = "done"
    /\ call.op \in {"get_pump_dataframe", "get_pump_df"}
    /\ call.substance \in Substances

\* the messages of the log, line by line (every line of PumpLines is full)
Messages == [i \in DOMAIN lines |-> MessageOf(lines[i])]

IsPumpMsg(m) == Contains(m, pump_prefix)

\* the words after the prefix, for a message that holds the prefix once
WordsAfterPrefix(m) == Split(Split(m, pump_prefix)[2], " ")

\* the exception that decoding the pump message m raises, "" when it
\* decodes: the prefix is not in it exactly once or the first word after it
\* is no number (ValueError), or fewer than three words follow (IndexError)
Undecodable(m) ==
    IF Len(Split(m, pump_prefix)) # 2 THEN "ValueError"
    ELSE IF ~PyFloatStr(WordsAfterPrefix(m)[1]).ok THEN "ValueError"
    ELSE IF Len(WordsAfterPrefix(m)) < 3 THEN "IndexError"
    ELSE ""

\* the substance a pump message that decodes names, as the module reads it:
\* the third word without its last character in errlog.py, without its
\* commas in imt_analysis.py
NamedSubstance(m) ==
    IF lib = "errlog" THEN DropLastChar(WordsAfterPrefix(m)[3])
    ELSE Remove(WordsAfterPrefix(m)[3], ",")

NamesSubstance(m, substance) == Undecodable(m) = "" /\ NamedSubstance(m) = substance

\* the log holds a pump message that names a substance other than the
\* requested one
OtherSubstanceLogged ==
    \E i \in DOMAIN Messages :
        /\ IsPumpMsg(Messages[i])
        /\ Undecodable(Messages[i]) = ""
        /\ NamedSubstance(Messages[i]) # call.substance

\* C9 as claimed: requesting the Dextrose stream from a log with a pump
\* message whose substance is Insulin fails with a substance-mismatch error
\* and returns no stream
C9_RequestFailsOnOtherSubstance ==
    ( /\ PumpCalled
      /\ call.substance = "Dextrose"
      /\ \E i \in DOMAIN Messages :
            IsPumpMsg(Messages[i]) /\ NamesSubstance(Messages[i], "Insulin") )
        => ~res.ok

\* the pump messages get_pump_dataframe selects: prefix and requested
\* substance both in the text
Selected(m) == IsPumpMsg(m) /\ Contains(m, call.substance)

\* the pump messages the called function decodes, in log order:
\* errlog.get_pump_dataframe the selected ones, imt_analysis.get_pump_df all
Decoded ==
    SelectSeq(Messages,
              LAMBDA m : IF call.op = "get_pump_dataframe" THEN Selected(m)
                         ELSE IsPumpMsg(m))

\* the exception the called function raises on the message m, "" when none:
\* the one of decoding it, or in errlog.py the AssertionError of a message
\* that names another substance than the requested one
Failure(m) ==
    IF Undecodable(m) # "" THEN Undecodable(m)
    ELSE IF call.op = "get_pump_dataframe" /\ NamedSubstance(m) # call.substance
    THEN "AssertionError"
    ELSE ""

\* C9 as amended: on a log with a pump message that names another substance
\* than the requested one, the call returns the stream of the messages that
\* name the requested substance, the other message left out, unless a message
\* it decodes fails; then it raises the exception of the first such message.
\* errlog.get_pump_dataframe decodes the messages that hold the prefix and
\* the requested substance anywhere in their text, and fails on one whose
\* third word, without its last character, is another substance
\* (AssertionError); imt_analysis.get_pump_df decodes every message with the
\* prefix and makes no such check.  Either fails on a message it decodes in
\* which the prefix is twice or the rate is no number (ValueError) or fewer
\* than three words follow the prefix (IndexError).
C9_OtherSubstanceLeftOut ==
    (PumpCalled /\ OtherSubstanceLogged) =>
        LET failed == SelectSeq(Decoded, LAMBDA m : Failure(m) # "")
        IN  IF failed = <<>>
            THEN /\ res.ok
                 /\ res.val["message"]
                        = SelectSeq(Decoded, LAMBDA m : NamesSubstance(m, call.substance))
            ELSE /\ ~res.ok
                 /\ res.err = Failure(failed[1])

\* the Dextrose stream of a log with two Insulin messages and one Dextrose
\* message is returned, with the Dextrose message alone
C9_Witness ==
    /\ PumpCalled
    /\ call.op = "get_pump_dataframe"
    /\ call.substance = "Dextrose"
    /\ Cardinality({i \in DOMAIN Messages :
                       IsPumpMsg(Messages[i]) /\ NamesSubstance(Messages[i], "Insulin")}) = 2
    /\ res.ok
    /\ Len(res.val["message"]) = 1
    /\ res.val["value"] = <<3 * FP>>

----------------------------------------------------------------------------
(* Specification of the Dose Integrator *)

\* ten seconds after T0
T0s == "20220101120010.000000"

\* a minute and a half and half a second after T0
T0m == "20220101120130.5"

DoseLines ==
    { LogLine(T0, PumpMsg(FP, "Insulin")),
      LogLine(T1, PumpMsg(FP, "Insulin")),
      LogLine(T1, PumpMsg(2 * FP, "Insulin")),
      LogLine(T2, PumpMsg(2 * FP, "Insulin")),
      \* no timestamp
      LogLine("", PumpMsg(FP, "Insulin")),
      LogLine(T0, PumpMsg(3 * FP, "Dextrose")),
      LogLine(T0, PumpMsg(1000 * FP, "Dextrose")),
      LogLine(T0s, PumpMsg(2 * FP, "Dextrose")),
      LogLine(T0m, PumpMsg(3 * FP, "Dextrose")) }

InitDose == InitWith(DoseLines)

NextDose ==
    \/ ImtErrLogDataframe
    \/ GetDextroseRateStats
    \/ GetInsulinRateStats

SpecDose == InitDose /\ [][NextDose]_vars

DoseCalled ==
    /\ pc = "done"
    /\ call.op \in {"get_dextrose_rate_stats", "get_insulin_rate_stats"}

\* the substance-filtered stream the dose integrator works on
DoseStream == get_pump_df(df, call.substance).val

\* the hours from the Timestamp a to the Timestamp b, exactly: the seconds
\* and the nanoseconds between them, each over those of an hour; nan when
\* one of them is missing
HoursBetween(a, b) ==
    IF a = NaT \/ b = NaT THEN Ratio(0, 0)
    ELSE FAdd(Ratio(b.sec - a.sec, 3600),
              FDiv(Decimal(b.ns - a.ns, 1, -9), Ratio(3600, 1)))

\* rate held until the next change: the sum of rate[i] * (t[i+1] - t[i]) over
\* all samples but the last, t being the timestamps of the stream in hours
RECURSIVE HeldVolume(_, _)
HeldVolume(rate, timestamp) ==
    IF Len(rate) < 2 THEN Ratio(0, 1)
    ELSE FAdd(FMul(Frac(rate[1]), HoursBetween(timestamp[1], timestamp[2])),
              HeldVolume(Tail(rate), Tail(timestamp)))

\* C4: for a substance-filtered stream of n >= 2 samples the integrated volume
\* is the sum over i < n of rate[i] * (t[i+1] - t[i]), t in hours: the last
\* sample adds nothing; rates 1.0 and 2.0 mL/hr at 0 and 60 min with the
\* stream ending at 120 min give 3.0 mL
C4_VolumeIsRateHeldUntilNextChange ==
    ( /\ DoseCalled
      /\ get_pump_df(df, call.substance).ok
      /\ Len(DoseStream["timestamp"]) >= 2 ) =>
        /\ res.ok
        /\ res.val.volume
               = Float(HeldVolume(DoseStream["Rate (mL/hr)"], DoseStream["timestamp"]))
        /\ ( /\ DoseStream["rel_time"] = <<Ratio(0, 1), Ratio(60, 1), Ratio(120, 1)>>
             /\ SubSeq(DoseStream["Rate (mL/hr)"], 1, 2) = <<FP, 2 * FP>> ) =>
              res.val.volume = 3 * FP

\* the scenario: Insulin at 1.0, 2.0 and 2.0 mL/hr at 0, 60 and 120 minutes
C4_Witness ==
    /\ DoseCalled
    /\ call.op = "get_insulin_rate_stats"
    /\ res.ok
    /\ DoseStream["rel_time"] = <<Ratio(0, 1), Ratio(60, 1), Ratio(120, 1)>>
    /\ DoseStream["Rate (mL/hr)"] = <<FP, 2 * FP, 2 * FP>>
    /\ res.val.volume = 3 * FP

\* Dextrose at 1000, 2 and 3 mL/hr at 0, 10 and 90.5 seconds: 1000 mL/hr for
\* 10 s and 2 mL/hr for 80.5 s are 2.8225 mL, at 3.742541 mg/kg/min for a
\* patient of 50 kg
C4_OddSecondsReached ==
    /\ DoseCalled
    /\ call.op = "get_dextrose_rate_stats"
    /\ call.info["Patient Weight (kg)"] = 50 * FP
    /\ DoseStream["Rate (mL/hr)"] = <<1000 * FP, 2 * FP, 3 * FP>>
    /\ DoseStream["rel_time"] = <<Ratio(0, 1), Ratio(1, 6), Ratio(181, 120)>>
    /\ res = Ok([volume |-> 2822, rate |-> 3742])

\* the rows of the stream that hold a timestamp
Stamped == {i \in DOMAIN DoseStream["timestamp"] : DoseStream["timestamp"][i] # NaT}

\* the row i of the stream is no later than the row j
NoLater(i, j) == ~Sooner(DoseStream["timestamp"][j], DoseStream["timestamp"][i])

\* the stream is too short to integrate, or spans no time: its timestamps
\* are one instant
TooShortOrNoDuration ==
    \/ Len(DoseStream["timestamp"]) < 2
    \/ /\ Stamped # {}
       /\ \A i, j \in Stamped : DoseStream["timestamp"][i] = DoseStream["timestamp"][j]

\* C13: the dose integrator fails with an error, and returns no value, when
\* the substance-filtered pump stream has fewer than 2 samples or when its
\* total elapsed time is 0
C13_ShortStreamFails ==
    (DoseCalled /\ get_pump_df(df, call.substance).ok /\ TooShortOrNoDuration)
        => ~res.ok

\* get_insulin_rate_stats was called on an Insulin stream of at least two
\* samples that spans some time
InsulinRateCalled ==
    /\ DoseCalled
    /\ call.op = "get_insulin_rate_stats"
    /\ get_pump_df(df, "Insulin").ok
    /\ Len(DoseStream["timestamp"]) >= 2
    /\ \E i, j \in Stamped : DoseStream["timestamp"][i] # DoseStream["timestamp"][j]

\* the elapsed hours of the stream, from its earliest timestamp to its latest
ElapsedHours ==
    HoursBetween(
        DoseStream["timestamp"][CHOOSE i \in Stamped : \A j \in Stamped : NoLater(i, j)],
        DoseStream["timestamp"][CHOOSE i \in Stamped : \A j \in Stamped : NoLater(j, i)])

\* concentration * volume / weight / hours for the stream, as a float
UnitsPerKgPerHour ==
    LET weight == Frac(call.info["Patient Weight (kg)"])
        concentration == Frac(call.info["Insulin Concentration (U/mL)"])
        volume == HeldVolume(DoseStream["Rate (mL/hr)"], DoseStream["timestamp"])
    IN  Float(FDiv(FDiv(FMul(concentration, volume), weight), ElapsedHours))

\* what get_insulin_rate_stats returns instead: ten times that quantity, the
\* factor (1/100) * 1000 of the dextrose formula
InsulinRateIsTenfold ==
    InsulinRateCalled =>
        LET weight == Frac(call.info["Patient Weight (kg)"])
            concentration == Frac(call.info["Insulin Concentration (U/mL)"])
            volume == HeldVolume(DoseStream["Rate (mL/hr)"], DoseStream["timestamp"])
        IN  /\ res.ok
            /\ res.val.rate
                   = Float(FMul(Ratio(10, 1),
                                FDiv(FDiv(FMul(concentration, volume), weight),
                                     ElapsedHours)))

\* C18: for an Insulin stream of at least 2 samples and non-zero duration
\* get_insulin_rate_stats returns the insulin units per kilogram per hour:
\* result * patient weight * elapsed hours equals concentration * integrated
\* volume, with no other scale factor
C18_UnitsPerKgPerHour ==
    InsulinRateCalled => res.ok /\ res.val.rate = UnitsPerKgPerHour

----------------------------------------------------------------------------
(* Specification of the per-stream relative time *)

StreamLines ==
    { LogLine(T0, "started"),
      LogLine(T1, SensorMsg(0, 120 * FP)),
      LogLine(T2, SensorMsg(0, 130 * FP)),
      LogLine(T1h, SensorMsg(1, 120 * FP)),
      LogLine(T1, PumpMsg(FP, "Insulin")),
      LogLine(T2, PumpMsg(2 * FP, "Insulin")),
      LogLine(T1h, PumpMsg(3 * FP, "Dextrose")) }

InitStreams == InitWith(StreamLines)

NextStreams ==
    \/ ErrLogDataframe
    \/ ImtErrLogDataframe
    \/ GetSensorDataframes
    \/ GetSensorDfs
    \/ GetPumpDataframe
    \/ GetPumpDf

SpecStreams == InitStreams /\ [][NextStreams]_vars

\* the streams a returned extraction holds
Streams ==
    IF call.op \in {"get_sensor_dataframes", "get_sensor_dfs"}
    THEN Range(res.val) ELSE {res.val}

StreamsReturned ==
    /\ pc = "done"
    /\ call.op \in {"get_sensor_dataframes", "get_sensor_dfs",
                    "get_pump_dataframe", "get_pump_df"}
    /\ res.ok

\* the instants of a stream: unix times in errlog.py, Timestamps in
\* imt_analysis.py
Instants(stream) ==
    IF lib = "errlog" THEN err_log_times(stream).val ELSE stream["timestamp"]

\* the earliest of the instants ts
FirstInstant(ts) == IF lib = "errlog" THEN UnixMin(ts) ELSE Earliest(ts)

\* minutes from the instant anchor to the instant t: a float in errlog.py, the
\* exact quotient in imt_analysis.py
ElapsedMinutes(t, anchor) ==
    IF lib = "errlog" THEN SpanOver(t, anchor, 60 * FP)
    ELSE FAdd(Ratio(t.sec - anchor.sec, 60),
              FDiv(Decimal(t.ns - anchor.ns, 1, -9), Ratio(60, 1)))

\* every row's rel_time is the minutes elapsed since the instant anchor
AnchoredAt(stream, anchor) ==
    \A i \in DOMAIN stream["rel_time"] :
        stream["rel_time"][i] = ElapsedMinutes(Instants(stream)[i], anchor)

OwnAnchor(stream) == AnchoredAt(stream, FirstInstant(Instants(stream)))

\* C8 as claimed: in every non-empty stream the Sensor Extractor or the Pump
\* Extractor returns, rel_time is anchored to the stream's own minimum
\* timestamp, whatever other records precede it in the log
C8_StreamsAnchoredToOwnMinimum ==
    StreamsReturned =>
        \A stream \in Streams : stream["timestamp"] # <<>> => OwnAnchor(stream)

\* C8 as amended: the streams of errlog.get_sensor_dataframes and
\* errlog.get_pump_dataframe are anchored to their own minimum timestamp; the
\* streams of imt_analysis.get_sensor_dfs and imt_analysis.get_pump_df keep
\* the rel_time of the whole log, anchored to the log's minimum timestamp
C8_AnchorPerModule ==
    StreamsReturned =>
        \A stream \in Streams :
            stream["timestamp"] # <<>> =>
                IF lib = "errlog" THEN OwnAnchor(stream)
                ELSE AnchoredAt(stream, FirstInstant(Instants(df)))

\* get_sensor_dfs on a log that starts an hour before sensor 0's two readings:
\* the stream's earliest row is at 60 minutes
C8_Witness ==
    /\ StreamsReturned
    /\ call.op = "get_sensor_dfs"
    /\ res.val[1]["rel_time"] = <<Ratio(120, 1), Ratio(60, 1)>>
    /\ ~OwnAnchor(res.val[1])

----------------------------------------------------------------------------
(* Specification of the Setup Info Extractor *)

\* a complete setup block: slot i is named Param<i>, with string value
\* "s<i+base>" and double value i + base
SetupBlock(base) ==
    LET Slots == 0..(NumSetupParams - 1)
    IN  [k \in SetupKeys |->
            LET i == CHOOSE j \in Slots :
                         k \in {name_key(j), string_value_key(j), float_value_key(j)}
            IN  IF k = name_key(i) THEN JStr("Param" \o ToString(i))
                ELSE IF k = string_value_key(i) THEN JStr("s" \o ToString(i + base))
                ELSE JNum((i + base) * FP)]

Without(obj, k) == [x \in DOMAIN obj \ {k} |-> obj[x]]

SetupLines ==
    { LogLine(T0, JsonText(JObj(SetupBlock(base)))) : base \in {0, 1} }
    \cup
    { LogLine(T0, JsonText(JObj(Without(SetupBlock(0), k)))) :
          k \in {name_key(0), float_value_key(5)} }
    \cup
    { \* a double value that is no number
      LogLine(T0, JsonText(JObj([SetupBlock(0) EXCEPT ![float_value_key(3)] = JStr("n/a")]))),
      \* a double value that is a number in a string
      LogLine(T0, JsonText(JObj([SetupBlock(0) EXCEPT ![float_value_key(3)] = JStr("7.5")]))),
      \* the marker in a message that is not JSON
      LogLine(T0, setup_marker \o " follow"),
      \* the marker in a message that is JSON and no setup block
      LogLine(T0, "{\"note\": \"Output Parameters\"}"),
      LogLine(T0, "started") }

\* a setup block is a line of about a thousand characters: the logs of this
\* specification are shorter than those of the others
InitSetup ==
    /\ lines \in SeqsUpTo(SetupLines, MaxSetupLines)
    /\ data_log = <<>>
    /\ lib = ""
    /\ df = <<>>
    /\ pc = "start"
    /\ call = NoCall
    /\ res = Ok(<<>>)

NextSetup == ErrLogDataframe \/ GetAppSetupInfo \/ ImtGetAppSetupInfo

SpecSetup == InitSetup /\ [][NextSetup]_vars

SetupCalled == pc = "done" /\ call.op = "get_app_setup_info"

\* the messages with "Output Parameters", in log order
SetupMessages == SelectSeq(Messages, LAMBDA m : Contains(m, setup_marker))

\* the JSON object of the first of them, when it is one
FirstBlock == json_loads(SetupMessages[1], TRUE)

\* the maps a complete block with names that are strings stands for: the
\* name of each slot to its string value and to its double value as a float
MapsOf(obj) ==
    LET Slots == 0..(NumSetupParams - 1)
        Names == {obj[name_key(i)] : i \in Slots}
        Last(n) == CHOOSE i \in Slots :
                       /\ obj[name_key(i)] = n
                       /\ \A j \in Slots : obj[name_key(j)] = n => j <= i
    IN  [strings |-> [n \in Names |-> obj[string_value_key(Last(n))]],
         floats |-> [n \in Names |-> PyFloat(obj[float_value_key(Last(n))]).val]]

\* C10: when the JSON of the first record with "Output Parameters" lacks one
\* of the three keyed fields of a slot 0..7, get_app_setup_info fails and
\* returns no map at all; only the first such record is consulted: a complete
\* first block gives its maps whatever records follow
C10_SetupAllOrNothing ==
    ( /\ SetupCalled
      /\ SetupMessages # <<>>
      /\ FirstBlock.ok
      /\ FirstBlock.val.ty = "obj" ) =>
        LET obj == FirstBlock.val.obj
        IN  /\ SetupKeys \ DOMAIN obj # {} => ~res.ok /\ res.val = <<>>
            /\ ( /\ SetupKeys \subseteq DOMAIN obj
                 /\ \A i \in 0..(NumSetupParams - 1) :
                        /\ obj[name_key(i)].ty = "str"
                        /\ PyFloat(obj[float_value_key(i)]).ok ) =>
                  res.ok /\ res.val = MapsOf(obj)

\* a block without "Output Parameters[5]:Double Value", followed by a complete
\* block: the call fails with KeyError
C10_Witness ==
    /\ SetupCalled
    /\ Len(SetupMessages) = 2
    /\ FirstBlock.ok
    /\ FirstBlock.val.ty = "obj"
    /\ SetupKeys \ DOMAIN FirstBlock.val.obj = {float_value_key(5)}
    /\ SetupMessages[2] = JsonText(JObj(SetupBlock(0)))
    /\ ~res.ok
    /\ res.err = "KeyError"

----------------------------------------------------------------------------
(* Specification of the Glycemia Classifier *)

\* glucose values on and next to the bin edges, in mg/dL: 39.99, 39.995, 70
\* and 150, and the NaN of an empty cell
GlucoseValues == {39990, 39995, 70 * FP, 150 * FP, NaN}

GlycemiaLines ==
    { LogLine(T0, SensorMsg(0, 30 * FP)),
      LogLine(T1, SensorMsg(1, 150 * FP)) }

InitGlycemia ==
    /\ lines \in SeqsUpTo(GlycemiaLines, MaxReadings)
    /\ \E values \in SeqsUpTo(GlucoseValues, MaxDataLog) :
          data_log = ("Glucose (mg/dL)" :> values)
    /\ lib = ""
    /\ df = <<>>
    /\ pc = "start"
    /\ call = NoCall
    /\ res = Ok(<<>>)

NextGlycemia == ImtErrLogDataframe \/ GetGlycemiaPercentages

SpecGlycemia == InitGlycemia /\ [][NextGlycemia]_vars

GlycemiaReturned ==
    pc = "done" /\ call.op = "get_glycemia_percentages" /\ res.ok

\* the glucose values of the stream behind row j of the result
StreamValues(j) ==
    IF j = 1 THEN data_log["Glucose (mg/dL)"]
    ELSE get_sensor_dfs(df).val[j - 1]["Glucose (mg/dL)"]

\* the four bands, as intervals of mg/dL
InBand(k, v) ==
    CASE k = 1 -> v <= 39990
      [] k = 2 -> 39990 < v /\ v <= 69990
      [] k = 3 -> 69990 < v /\ v <= 140 * FP
      [] k = 4 -> 140 * FP < v

BandCount(k, values) == Cardinality({i \in DOMAIN values : InBand(k, values[i])})

RECURSIVE Total(_)
Total(s) == IF s = <<>> THEN 0 ELSE Head(s) + Total(Tail(s))

PercentSum(row) == Total(row.perc)

\* C3: for every non-empty stream of finite glucose values handed to
\* get_glycemia_percentages each value is counted in exactly one of the four
\* bands, each reported percentage is 100 * count / n, and the four
\* percentages sum to 100, all within the rounding of a float (the floating
\* tolerance: a unit for each percentage)
C3_PercentagesSumTo100WithinRounding ==
    GlycemiaReturned =>
        \A j \in DOMAIN res.val :
            LET values == StreamValues(j)
                n == Len(values)
                row == res.val[j]
            IN  (n > 0 /\ \A i \in DOMAIN values : IsFinite(values[i])) =>
                  /\ \A i \in DOMAIN values :
                        Cardinality({k \in DOMAIN labels : InBand(k, values[i])}) = 1
                  /\ Total([k \in DOMAIN labels |-> BandCount(k, values)]) = n
                  /\ \A k \in DOMAIN labels :
                        /\ IsFinite(row.perc[k])
                        /\ row.perc[k] * n <= 100 * FP * BandCount(k, values)
                        /\ 100 * FP * BandCount(k, values) < (row.perc[k] + 1) * n
                  /\ PercentSum(row) <= 100 * FP
                  /\ PercentSum(row) > 100 * FP - Len(labels)

\* a data log of three values, one in Severe hypoglycemia and two in
\* Hyperglycemia: 33.333 and 66.666 percent
C3_Witness ==
    /\ GlycemiaReturned
    /\ data_log["Glucose (mg/dL)"] = <<150 * FP, 39990, 150 * FP>>
    /\ res.val[1].perc[1] = 33333
    /\ res.val[1].perc[4] = 66666
    /\ PercentSum(res.val[1]) # 100 * FP

GlycemiaCalled == pc = "done" /\ call.op = "get_glycemia_percentages"

\* one of the streams handed to the percentages has no entry: the data log,
\* or one of the per-sensor sequences get_sensor_dfs returns
EmptyStream ==
    \/ data_log["Glucose (mg/dL)"] = <<>>
    \/ /\ get_sensor_dfs(df).ok
       /\ \E f \in DOMAIN get_sensor_dfs(df).val :
             /\ f < Len(df_labels)
             /\ get_sensor_dfs(df).val[f]["Glucose (mg/dL)"] = <<>>

\* C12: get_glycemia_percentages fails with an error whenever one of its
\* streams has zero entries; it returns no percentage row for an empty stream
C12_EmptyStreamFails ==
    (GlycemiaCalled /\ EmptyStream) => ~res.ok

\* C15: every pipeline operation leaves each table it receives unchanged:
\* after the call the error-log table and the data-log table have the same
\* columns with the same contents as before
C15_InputsUnchanged ==
    [][pc = "loaded" => (df' = df /\ data_log' = data_log)]_vars

\* the band of a glucose value by the thresholds 40, 70 and 140 mg/dL
ThresholdBand(v) ==
    IF v < 40 * FP THEN 1
    ELSE IF v < 70 * FP THEN 2
    ELSE IF v <= 140 * FP THEN 3
    ELSE 4

\* C16: for every finite glucose value v, with any number of decimals,
\* get_glycemia_percentages assigns v to Severe hypoglycemia iff v < 40, to
\* Hypoglycemia iff 40 <= v < 70, to Normoglycemia iff 70 <= v <= 140 and to
\* Hyperglycemia iff v > 140
C16_BandsByThreshold ==
    (GlycemiaCalled /\ res.ok) =>
        \A i \in DOMAIN data_log["Glucose (mg/dL)"] :
            IsFinite(data_log["Glucose (mg/dL)"][i]) =>
                data_log["Glucose Category"][i]
                    = labels[ThresholdBand(data_log["Glucose (mg/dL)"][i])]


====
